---- MODULE Spec2Model ----
(***************************************************************************)
(* A model of the photo post-processing pipeline:                          *)
(*   - the PhotoshopStyleEnhancer session and the preset catalog           *)
(*     (utils/photoshop_tools.py),                                         *)
(*   - the preset and custom-preset stage sequences,                       *)
(*   - the batch driver process_images_with_photoshop_preset               *)
(*     (process_photos.py),                                                *)
(*   - the RAW loader fallback chain (utils/raw_processing_enhanced.py),   *)
(*   - the format optimizer (utils/format_optimizer.py),                   *)
(*   - the target size computation (utils/image_processing.py),            *)
(*   - the pixel computations of exposure, brightness, highlights/shadows, *)
(*     color temperature and midtone protection on 8-bit buffers, in       *)
(*     single precision,                                                   *)
(*   - the mode driver process_images (process_photos.py),                 *)
(*   - the alpha scaling of the watermark logo (utils/image_processing.py),*)
(*   - the copy utility with its worker threads                            *)
(*     (utils/others/copy_or_cut_files.py).                                *)
(*                                                                         *)
(* Image buffers are modelled as terms: the identity of the decoded        *)
(* pixels followed by the list of the transforms that were applied to      *)
(* them, each with its arguments.  Two buffers are equal exactly when      *)
(* they were produced from the same pixels by the same transforms.         *)
(* Exposure values are in hundredths of a stop (5 stands for 0.05).        *)
(***************************************************************************)
EXTENDS Integers, Sequences, FiniteSets, TLC

VARIABLES
    image,      \* the image handed to the PhotoshopStyleEnhancer constructor
    enh,        \* the PhotoshopStyleEnhancer session under test
    steps,      \* number of method calls made on the session so far
    lastCall,   \* the method called last on the session ("none" at first)
    prev,       \* the session as it was before the last call
    ppc,        \* position inside apply_photoshop_preset / the custom path
    pkind,      \* "preset" or "custom": which stage sequence is running
    pname,      \* preset name given to apply_photoshop_preset
    pcustom,    \* custom preset dict given to the custom path
    presult,    \* value returned / raised by the stage sequence
    fpath,      \* file path handed to the FormatOptimizer
    frequested, \* requested preset name handed to get_optimal_preset
    fpc,        \* "ready" before the call, "returned" after it
    fresult,    \* value returned by get_optimal_preset
    lpath,      \* file path handed to the image loader
    lfails,     \* which decode strategies fail on that file
    lcall,      \* the loader function that was called
    lresult,    \* what the loader returned or raised
    b_pc,           \* position of the batch driver
    b_outcome,      \* "running", then "returned" or "raised" (to the caller)
    input_kind,     \* "folder", "zip" or "bad_zip" (a ZIP whose extraction fails)
    directory,      \* the files of the input, in os.walk order
    preset_name,    \* preset name given to the batch driver
    mode,           \* mode given to process_images
    ENABLE_WATERMARK, \* configuration flag
    logo_ok,        \* whether the watermark logo asset can be read
    is_temp,        \* working folder is a temporary extraction directory
    temp_exists,    \* the temporary extraction directory exists on disk
    input_exists,   \* the folder or archive given as input_path exists on disk
    image_files,    \* result of get_image_files_from_directory
    li,             \* index of the current entry of RESOLUTIONS
    fi,             \* index of the current entry of image_files
    cur,            \* img / enhanced_img / final_img of the current iteration
    alog,           \* stages run in the current iteration, with their outcome
    attempts,       \* the <<li, fi>> iterations started so far
    outputs,        \* for each output folder, the files written: <<name, content>>
    console,        \* the messages printed
    ts_pc,          \* "ready" before calculate_target_size, "done" after it
    ts_pixels,      \* its argument total_pixels
    ts_width,       \* width of the image whose ratio is its argument
    ts_height,      \* height of the image whose ratio is its argument
    ts_result,      \* what it returned or raised
    wm_pc,          \* "ready" before the logo pixel is scaled, "done" after it
    wm_opacity,     \* watermark_opacity, in hundredths
    wm_alpha,       \* alpha of the logo pixel as loaded
    wm_applied,     \* alpha of the logo pixel as pasted
    c_pc,               \* position of main / copy_files in the copy utility
    source_exists,      \* os.path.exists(source_dir)
    choice,             \* the answer to "Enter your choice (1 or 2)"
    confirm,            \* the answer to "Type 'YES' to confirm", as typed
    delete_after_copy,  \* local of main
    listed,             \* the files list_media_files returned
    dest,               \* per file, the state of its destination path
    dest_before,        \* dest as it was when the copy started
    task,               \* per file, the position of its copy_single_file call
    local,              \* per file, the counter value read for += 1
    progress_lock,      \* 0 when free, else the file whose task holds it
    copied_count,       \* copied_count[0]
    skipped_count,      \* skipped_count[0]
    wresult,            \* per file, the status copy_single_file returned
    collected,          \* the futures as_completed has yielded
    successful_copies,  \* local of copy_files
    copy_successful,    \* what copy_files returned
    deleted             \* delete_all_files(source_dir) was called

sessionVars == <<image, enh, steps, lastCall, prev>>
presetVars  == <<ppc, pkind, pname, pcustom, presult>>

formatVars  == <<fpath, frequested, fpc, fresult>>

loaderVars  == <<lpath, lfails, lcall, lresult>>

batchVars   == <<b_pc, b_outcome, input_kind, directory, preset_name, mode,
                 ENABLE_WATERMARK, logo_ok, is_temp, temp_exists, input_exists,
                 image_files, li, fi, cur, alog, attempts, outputs, console>>

sizeVars    == <<ts_pc, ts_pixels, ts_width, ts_height, ts_result>>

wmVars      == <<wm_pc, wm_opacity, wm_alpha, wm_applied>>

copyVars    == <<c_pc, source_exists, choice, confirm, delete_after_copy, listed,
                 dest, dest_before, task, local, progress_lock, copied_count,
                 skipped_count, wresult, collected, successful_copies,
                 copy_successful, deleted>>

toolVars    == <<wmVars, copyVars>>

vars == <<sessionVars, presetVars, formatVars, loaderVars, batchVars, sizeVars,
          toolVars>>

-----------------------------------------------------------------------------
(* Bounds *)

MaxSteps == 3
NumImages == 2

Images == 1..NumImages

-----------------------------------------------------------------------------
(* Helpers *)

Range(s) == { s[i] : i \in DOMAIN s }

\* dict.get(key, default)
Get(d, key, default) == IF key \in DOMAIN d THEN d[key] ELSE default

\* The pixels of source image i, as loaded.
Pixels(i) == << <<"pixels", i>> >>

-----------------------------------------------------------------------------
(* PHOTOSHOP_PRESETS *)

PHOTOSHOP_PRESETS ==
    [ portrait_subtle |->
        [exposure |-> 5, highlights |-> -5, shadows |-> 8, vibrance |-> 5,
         saturation |-> 0, clarity |-> 2, structure |-> 5, temperature |-> 2,
         skin_smoothing |-> 8],
      portrait_subtle_raw |->
        [exposure |-> 2, highlights |-> -3, shadows |-> 5, vibrance |-> 3,
         saturation |-> 0, clarity |-> 1, structure |-> 3, temperature |-> 1,
         skin_smoothing |-> 5],
      portrait_natural |->
        [exposure |-> 10, highlights |-> -10, shadows |-> 15, vibrance |-> 10,
         saturation |-> 0, clarity |-> 5, structure |-> 10, temperature |-> 5,
         skin_smoothing |-> 15],
      portrait_dramatic |->
        [exposure |-> 8, highlights |-> -8, shadows |-> 20, vibrance |-> 15,
         saturation |-> 0, clarity |-> 3, structure |-> 8, temperature |-> 5,
         skin_smoothing |-> 5],
      landscape |->
        [exposure |-> 0, highlights |-> -15, shadows |-> 10, vibrance |-> 20,
         saturation |-> 10, clarity |-> 20, structure |-> 15,
         temperature |-> -5],
      studio_portrait |->
        [exposure |-> 20, highlights |-> -5, shadows |-> 5, vibrance |-> 5,
         saturation |-> 0, clarity |-> 0, structure |-> 5, temperature |-> 10,
         skin_smoothing |-> 20],
      overexposed_recovery |->
        [exposure |-> -10, highlights |-> -20, shadows |-> 10, vibrance |-> 8,
         saturation |-> 0, clarity |-> 3, structure |-> 5, temperature |-> 0,
         skin_smoothing |-> 0],
      natural_wildlife |->
        [exposure |-> 5, highlights |-> -12, shadows |-> 15, vibrance |-> 12,
         saturation |-> 0, clarity |-> 6, structure |-> 10, temperature |-> 2,
         skin_smoothing |-> 0],
      sports_action |->
        [exposure |-> 4, highlights |-> -18, shadows |-> 10, vibrance |-> 12,
         saturation |-> 2, clarity |-> 8, structure |-> 10, temperature |-> 2,
         skin_smoothing |-> 0, midtone_protection |-> TRUE],
      sports_action_raw |->
        [exposure |-> 2, highlights |-> -10, shadows |-> 5, vibrance |-> 5,
         saturation |-> 0, clarity |-> 2, structure |-> 5, temperature |-> 0,
         skin_smoothing |-> 0, midtone_protection |-> TRUE],
      portrait_dramatic_raw |->
        [exposure |-> 12, highlights |-> -15, shadows |-> 25, vibrance |-> 20,
         saturation |-> 5, clarity |-> 8, structure |-> 12, temperature |-> 8,
         skin_smoothing |-> 3],
      portrait_natural_raw |->
        [exposure |-> 15, highlights |-> -18, shadows |-> 22, vibrance |-> 15,
         saturation |-> 3, clarity |-> 8, structure |-> 15, temperature |-> 8,
         skin_smoothing |-> 12],
      landscape_raw |->
        [exposure |-> 5, highlights |-> -25, shadows |-> 15, vibrance |-> 30,
         saturation |-> 15, clarity |-> 25, structure |-> 20,
         temperature |-> -3, skin_smoothing |-> 0],
      natural_wildlife_raw |->
        [exposure |-> 8, highlights |-> -18, shadows |-> 20, vibrance |-> 18,
         saturation |-> 3, clarity |-> 12, structure |-> 18, temperature |-> 5,
         skin_smoothing |-> 0] ]

PresetNames == DOMAIN PHOTOSHOP_PRESETS

-----------------------------------------------------------------------------
(* PhotoshopStyleEnhancer.  A session is a record                          *)
(*   original, working : buffers                                           *)
(*   history           : the list of description entries                   *)
(*   trace             : one record per method call made since the         *)
(*                       construction or the last reset: the method, the   *)
(*                       working buffer it read and the one it left        *)

\* The statistics apply_midtone_protection computes from the working
\* buffer: the percentage of pixels with 140 < V < 200, the mean V, and
\* whether any pixel has 160 < V < 200.
MidtoneStats ==
    { st \in [pct : {10, 15, 16, 60}, mean : {100, 120, 121, 180},
              target : BOOLEAN] :
        st.target => st.pct > 0 }

Called(s, op, out) ==
    Append(s.trace, [op |-> op, inb |-> s.working, outb |-> out])

PhotoshopStyleEnhancer(img) ==
    [original |-> img, working |-> img, history |-> <<>>, trace |-> <<>>]

exposure_adjustment(s, exposure_value) ==
    LET out == Append(s.working, <<"exposure", exposure_value>>)
    IN  [s EXCEPT !.working = out,
                  !.history = Append(@, <<"Exposure", exposure_value>>),
                  !.trace = Called(s, "exposure_adjustment", out)]

\* A variant whose factor lacks the leading 1.0 +.
brightness_adjustment_factor_without_one(s, brightness_value) ==
    IF brightness_value = 0
    THEN [s EXCEPT !.trace = Called(s, "brightness_adjustment", s.working)]
    ELSE LET f100 == IF brightness_value > 0 THEN brightness_value ELSE 0
             out == Append(s.working, <<"brightness", f100>>)
         IN  [s EXCEPT !.working = out,
                       !.history = Append(@, <<"Brightness", brightness_value>>),
                       !.trace = Called(s, "brightness_adjustment", out)]

brightness_adjustment(s, brightness_value) ==
    IF brightness_value = 0
    THEN [s EXCEPT !.trace = Called(s, "brightness_adjustment", s.working)]
    ELSE LET f100 == IF brightness_value > 0
                     THEN 100 + brightness_value
                     ELSE IF 100 + brightness_value < 0
                          THEN 0 ELSE 100 + brightness_value
             out == Append(s.working, <<"brightness", f100>>)
         IN  [s EXCEPT !.working = out,
                       !.history = Append(@, <<"Brightness", brightness_value>>),
                       !.trace = Called(s, "brightness_adjustment", out)]

\* A variant that computes from the original buffer instead of the working one.
highlights_shadows_on_original(s, highlights, shadows) ==
    LET out == Append(s.original, <<"highlights_shadows", highlights, shadows>>)
    IN  [s EXCEPT !.working = out,
                  !.history = Append(@, <<"Highlights", highlights, shadows>>),
                  !.trace = Append(@, [op |-> "highlights_shadows",
                                       inb |-> s.original, outb |-> out])]

highlights_shadows(s, highlights, shadows) ==
    LET out == Append(s.working, <<"highlights_shadows", highlights, shadows>>)
    IN  [s EXCEPT !.working = out,
                  !.history = Append(@, <<"Highlights", highlights, shadows>>),
                  !.trace = Called(s, "highlights_shadows", out)]

vibrance_saturation(s, vibrance, saturation) ==
    LET w1 == IF saturation # 0
              THEN Append(s.working, <<"saturation", saturation>>)
              ELSE s.working
        out == IF vibrance # 0
               THEN Append(w1, <<"vibrance", vibrance>>)
               ELSE w1
    IN  [s EXCEPT !.working = out,
                  !.history = Append(@, <<"Vibrance", vibrance, saturation>>),
                  !.trace = Called(s, "vibrance_saturation", out)]

clarity_structure(s, clarity, structure) ==
    LET w1 == IF clarity # 0
              THEN Append(s.working, <<"clarity", clarity>>)
              ELSE s.working
        out == IF structure # 0 /\ structure > 0
               THEN Append(w1, <<"structure", structure>>)
               ELSE w1
    IN  [s EXCEPT !.working = out,
                  !.history = Append(@, <<"Clarity", clarity, structure>>),
                  !.trace = Called(s, "clarity_structure", out)]

color_temperature(s, temperature, tint) ==
    IF temperature = 0 /\ tint = 0
    THEN [s EXCEPT !.trace = Called(s, "color_temperature", s.working)]
    ELSE LET out == Append(s.working, <<"temperature", temperature, tint>>)
         IN  [s EXCEPT !.working = out,
                       !.history = Append(@, <<"Temperature", temperature, tint>>),
                       !.trace = Called(s, "color_temperature", out)]

portrait_enhancements(s, skin_smoothing) ==
    LET w1 == IF skin_smoothing > 0
              THEN Append(s.working, <<"smooth", skin_smoothing>>)
              ELSE s.working
        out == IF skin_smoothing > 0 /\ skin_smoothing > 30
               THEN Append(w1, <<"detail", 110>>)
               ELSE w1
    IN  [s EXCEPT !.working = out,
                  !.history = Append(@, <<"Portrait", skin_smoothing>>),
                  !.trace = Called(s, "portrait_enhancements", out)]

\* A variant that also protects at exactly 15% of bright pixels.
apply_midtone_protection_threshold_inclusive(s, st) ==
    LET should_protect == st.pct >= 15 /\ st.mean > 120
        out == IF should_protect /\ st.target
               THEN Append(s.working, <<"midtone", 94>>)
               ELSE s.working
        entry == IF should_protect
                 THEN IF st.target
                      THEN <<"Midtone Protection", "Applied", st.pct>>
                      ELSE <<"Midtone Protection", "No target areas found">>
                 ELSE IF st.pct <= 15
                      THEN <<"Midtone Protection", "Skipped", "low bright areas">>
                      ELSE <<"Midtone Protection", "Skipped", "image not bright enough">>
    IN  [s EXCEPT !.working = out,
                  !.history = Append(@, entry),
                  !.trace = Called(s, "apply_midtone_protection", out)]

apply_midtone_protection(s, st) ==
    LET should_protect == st.pct > 15 /\ st.mean > 120
        out == IF should_protect /\ st.target
               THEN Append(s.working, <<"midtone", 94>>)
               ELSE s.working
        entry == IF should_protect
                 THEN IF st.target
                      THEN <<"Midtone Protection", "Applied", st.pct>>
                      ELSE <<"Midtone Protection", "No target areas found">>
                 ELSE IF st.pct <= 15
                      THEN <<"Midtone Protection", "Skipped", "low bright areas">>
                      ELSE <<"Midtone Protection", "Skipped", "image not bright enough">>
    IN  [s EXCEPT !.working = out,
                  !.history = Append(@, entry),
                  !.trace = Called(s, "apply_midtone_protection", out)]

get_result(s) == s.working

get_history(s) == s.history

\* A variant that clears the history but keeps the working buffer.
reset_keeps_working(s) ==
    [s EXCEPT !.history = <<>>, !.trace = <<>>]

reset(s) ==
    [s EXCEPT !.working = s.original, !.history = <<>>, !.trace = <<>>]

-----------------------------------------------------------------------------
(* apply_photoshop_preset as a function: the value it returns, or the      *)
(* ValueError it raises.  st stands for the statistics of the buffer that  *)
(* reaches apply_midtone_protection.                                       *)

\* Lines 501-530: the stage sequence, for the dict preset.
preset_stages(img, preset, st) ==
    LET e0 == PhotoshopStyleEnhancer(img)
        e1 == exposure_adjustment(e0, Get(preset, "exposure", 0))
        e2 == highlights_shadows(e1, Get(preset, "highlights", 0),
                                     Get(preset, "shadows", 0))
        e3 == vibrance_saturation(e2, Get(preset, "vibrance", 0),
                                      Get(preset, "saturation", 0))
        e4 == clarity_structure(e3, Get(preset, "clarity", 0),
                                    Get(preset, "structure", 0))
        e5 == color_temperature(e4, Get(preset, "temperature", 0),
                                    Get(preset, "tint", 0))
        e6 == portrait_enhancements(e5, Get(preset, "skin_smoothing", 0))
        e7 == IF Get(preset, "midtone_protection", FALSE)
              THEN apply_midtone_protection(e6, st)
              ELSE e6
    IN  [raised |-> FALSE, result |-> get_result(e7),
         history |-> get_history(e7), session |-> e7]

apply_photoshop_preset(img, name, st) ==
    IF name \notin PresetNames
    THEN [raised |-> TRUE, error |-> "ValueError"]
    ELSE preset_stages(img, PHOTOSHOP_PRESETS[name], st)

\* process_images_with_custom_preset, lines 595-624: the stage sequence for
\* the dict custom_preset.
custom_stages(img, custom_preset) ==
    LET e0 == PhotoshopStyleEnhancer(img)
        e1 == IF Get(custom_preset, "exposure", 0) # 0
              THEN exposure_adjustment(e0, Get(custom_preset, "exposure", 0))
              ELSE IF Get(custom_preset, "brightness", 0) # 0
                   THEN brightness_adjustment(e0, Get(custom_preset, "brightness", 0))
                   ELSE e0
        e2 == highlights_shadows(e1, Get(custom_preset, "highlights", 0),
                                     Get(custom_preset, "shadows", 0))
        e3 == vibrance_saturation(e2, Get(custom_preset, "vibrance", 0),
                                      Get(custom_preset, "saturation", 0))
        e4 == clarity_structure(e3, Get(custom_preset, "clarity", 0),
                                    Get(custom_preset, "structure", 0))
        e5 == color_temperature(e4, Get(custom_preset, "temperature", 0), 0)
        e6 == portrait_enhancements(e5, Get(custom_preset, "skin_smoothing", 0))
    IN  e6

-----------------------------------------------------------------------------
(* Calls on a session, in any order (SpecSession) *)

ExposureArgs   == {-10, 0, 5}
BrightnessArgs == {-150, 0, 20}
PairArgs       == {<<0, 0>>, <<-5, 8>>, <<0, 5>>}
SmoothingArgs  == {0, 8, 40}
SessionStats   == { st \in MidtoneStats : st.pct \in {15, 60} /\ st.mean \in {120, 180} }

NoSession == [original |-> <<>>, working |-> <<>>, history |-> <<>>, trace |-> <<>>]

FormatIdle ==
    /\ fpath = <<>>
    /\ frequested = "none"
    /\ fpc = "idle"
    /\ fresult = "none"

WatermarkIdle ==
    /\ wm_pc = "idle"
    /\ wm_opacity = 0
    /\ wm_alpha = 0
    /\ wm_applied = 0

CopyIdle ==
    /\ c_pc = "idle"
    /\ source_exists = FALSE
    /\ choice = "none"
    /\ confirm = <<>>
    /\ delete_after_copy = FALSE
    /\ listed = {}
    /\ dest = <<>>
    /\ dest_before = <<>>
    /\ task = <<>>
    /\ local = <<>>
    /\ progress_lock = 0
    /\ copied_count = 0
    /\ skipped_count = 0
    /\ wresult = <<>>
    /\ collected = {}
    /\ successful_copies = 0
    /\ copy_successful = "none"
    /\ deleted = FALSE

ToolsIdle == WatermarkIdle /\ CopyIdle

SizeIdle ==
    /\ ts_pc = "idle"
    /\ ts_pixels = 0
    /\ ts_width = 0
    /\ ts_height = 0
    /\ ts_result = <<>>

BatchIdle ==
    /\ b_pc = "idle"
    /\ b_outcome = "none"
    /\ input_kind = "none"
    /\ directory = <<>>
    /\ preset_name = "none"
    /\ mode = "none"
    /\ ENABLE_WATERMARK = FALSE
    /\ logo_ok = FALSE
    /\ is_temp = FALSE
    /\ temp_exists = FALSE
    /\ input_exists = FALSE
    /\ image_files = <<>>
    /\ li = 0
    /\ fi = 0
    /\ cur = <<>>
    /\ alog = <<>>
    /\ attempts = <<>>
    /\ outputs = <<>>
    /\ console = <<>>

LoaderIdle ==
    /\ lpath = <<>>
    /\ lfails = <<>>
    /\ lcall = "none"
    /\ lresult = <<>>

PresetIdle ==
    /\ ppc = "idle"
    /\ pkind = "none"
    /\ pname = "none"
    /\ pcustom = <<>>
    /\ presult = <<>>

InitSession ==
    /\ image \in { Pixels(i) : i \in Images }
    /\ enh = PhotoshopStyleEnhancer(image)
    /\ steps = 0
    /\ lastCall = "none"
    /\ prev = NoSession
    /\ PresetIdle
    /\ FormatIdle
    /\ LoaderIdle
    /\ BatchIdle
    /\ SizeIdle
    /\ ToolsIdle

CallStep(name, e) ==
    /\ steps < MaxSteps
    /\ steps' = steps + 1
    /\ enh' = e
    /\ lastCall' = name
    /\ prev' = enh
    /\ UNCHANGED <<image, presetVars, formatVars, loaderVars, batchVars, sizeVars, toolVars>>

CallExposure ==
    \E v \in ExposureArgs : CallStep("exposure_adjustment", exposure_adjustment(enh, v))

CallBrightness ==
    \E v \in BrightnessArgs : CallStep("brightness_adjustment", brightness_adjustment(enh, v))

CallHighlightsShadows ==
    \E a \in PairArgs : CallStep("highlights_shadows", highlights_shadows(enh, a[1], a[2]))

CallVibranceSaturation ==
    \E a \in PairArgs : CallStep("vibrance_saturation", vibrance_saturation(enh, a[1], a[2]))

CallClarityStructure ==
    \E a \in PairArgs : CallStep("clarity_structure", clarity_structure(enh, a[1], a[2]))

CallColorTemperature ==
    \E a \in PairArgs : CallStep("color_temperature", color_temperature(enh, a[1], a[2]))

CallPortrait ==
    \E v \in SmoothingArgs : CallStep("portrait_enhancements", portrait_enhancements(enh, v))

CallMidtoneProtection ==
    \E st \in SessionStats : CallStep("apply_midtone_protection", apply_midtone_protection(enh, st))

CallReset == CallStep("reset", reset(enh))

NextSession ==
    \/ CallExposure
    \/ CallBrightness
    \/ CallHighlightsShadows
    \/ CallVibranceSaturation
    \/ CallClarityStructure
    \/ CallColorTemperature
    \/ CallPortrait
    \/ CallMidtoneProtection
    \/ CallReset

SpecSession == InitSession /\ [][NextSession]_vars

-----------------------------------------------------------------------------
(* The stage sequence of apply_photoshop_preset and of the custom-preset   *)
(* path of process_images_with_custom_preset, one statement per step       *)
(* (SpecPreset).                                                           *)

\* A name that is not a key of PHOTOSHOP_PRESETS.
UnknownPreset == "vintage_film"

\* The dicts custom_adjustments_mode builds from the user's answers.
CustomAnswers ==
    [exposure : {0, 50}, brightness : {0, 20}, highlights : {0, -10},
     shadows : {0}, vibrance : {0, 10}, saturation : {0}, clarity : {0, 5},
     structure : {0}, temperature : {0, 10}, skin_smoothing : {0, 40}]

WithKey(d, key, value) ==
    [k \in DOMAIN d \cup {key} |-> IF k = key THEN value ELSE d[k]]

\* The dicts given to process_images_with_custom_preset: those of
\* custom_adjustments_mode, and dicts with a key of the preset catalog that
\* custom_adjustments_mode does not ask for.
Customs ==
    CustomAnswers
        \cup { WithKey(c, "tint", t) : c \in CustomAnswers, t \in {-20, 30} }
        \cup { WithKey(c, "midtone_protection", TRUE) : c \in CustomAnswers }

SessionIdle ==
    /\ enh = NoSession
    /\ steps = 0
    /\ lastCall = "none"
    /\ prev = NoSession

InitPreset ==
    /\ image \in { Pixels(i) : i \in Images }
    /\ SessionIdle
    /\ ppc = "start"
    /\ presult = <<>>
    /\ FormatIdle
    /\ LoaderIdle
    /\ BatchIdle
    /\ SizeIdle
    /\ ToolsIdle
    /\ \/ /\ pkind = "preset"
          /\ pname \in PresetNames \cup {UnknownPreset}
          /\ pcustom = <<>>
       \/ /\ pkind = "custom"
          /\ pname = "custom"
          /\ pcustom \in Customs

PStep(kind, from, to, e) ==
    /\ pkind = kind
    /\ ppc = from
    /\ ppc' = to
    /\ enh' = e
    /\ UNCHANGED <<image, steps, lastCall, prev, pkind, pname, pcustom, formatVars, loaderVars, batchVars, sizeVars, toolVars>>

PS_Lookup ==
    /\ pkind = "preset"
    /\ ppc = "start"
    /\ IF pname \notin PresetNames
       THEN /\ ppc' = "raised"
            /\ presult' = <<"ValueError">>
            /\ UNCHANGED enh
       ELSE /\ ppc' = "exposure"
            /\ enh' = PhotoshopStyleEnhancer(image)
            /\ UNCHANGED presult
    /\ UNCHANGED <<image, steps, lastCall, prev, pkind, pname, pcustom, formatVars, loaderVars, batchVars, sizeVars, toolVars>>

PS_Exposure ==
    /\ PStep("preset", "exposure", "highlights",
             exposure_adjustment(enh, Get(PHOTOSHOP_PRESETS[pname], "exposure", 0)))
    /\ UNCHANGED presult

PS_HighlightsShadows ==
    /\ PStep("preset", "highlights", "vibrance",
             highlights_shadows(enh, Get(PHOTOSHOP_PRESETS[pname], "highlights", 0),
                                     Get(PHOTOSHOP_PRESETS[pname], "shadows", 0)))
    /\ UNCHANGED presult

PS_VibranceSaturation ==
    /\ PStep("preset", "vibrance", "clarity",
             vibrance_saturation(enh, Get(PHOTOSHOP_PRESETS[pname], "vibrance", 0),
                                      Get(PHOTOSHOP_PRESETS[pname], "saturation", 0)))
    /\ UNCHANGED presult

PS_ClarityStructure ==
    /\ PStep("preset", "clarity", "temperature",
             clarity_structure(enh, Get(PHOTOSHOP_PRESETS[pname], "clarity", 0),
                                    Get(PHOTOSHOP_PRESETS[pname], "structure", 0)))
    /\ UNCHANGED presult

PS_ColorTemperature ==
    /\ PStep("preset", "temperature", "portrait",
             color_temperature(enh, Get(PHOTOSHOP_PRESETS[pname], "temperature", 0),
                                    Get(PHOTOSHOP_PRESETS[pname], "tint", 0)))
    /\ UNCHANGED presult

PS_Portrait ==
    /\ PStep("preset", "portrait", "finish",
             portrait_enhancements(enh, Get(PHOTOSHOP_PRESETS[pname], "skin_smoothing", 0)))
    /\ UNCHANGED presult

\* if preset.get('midtone_protection', False): ...; return result, history
PS_MidtoneAndReturn ==
    /\ pkind = "preset"
    /\ ppc = "finish"
    /\ \E st \in MidtoneStats :
         LET e == IF Get(PHOTOSHOP_PRESETS[pname], "midtone_protection", FALSE)
                  THEN apply_midtone_protection(enh, st)
                  ELSE enh
         IN  /\ enh' = e
             /\ presult' = <<get_result(e), get_history(e)>>
    /\ ppc' = "done"
    /\ UNCHANGED <<image, steps, lastCall, prev, pkind, pname, pcustom, formatVars, loaderVars, batchVars, sizeVars, toolVars>>

CP_New ==
    /\ PStep("custom", "start", "exposure", PhotoshopStyleEnhancer(image))
    /\ UNCHANGED presult

\* A variant with two independent if statements instead of if / elif.
CP_ExposureAndBrightness ==
    /\ PStep("custom", "exposure", "highlights",
             LET e1 == IF Get(pcustom, "exposure", 0) # 0
                       THEN exposure_adjustment(enh, Get(pcustom, "exposure", 0))
                       ELSE enh
             IN  IF Get(pcustom, "brightness", 0) # 0
                 THEN brightness_adjustment(e1, Get(pcustom, "brightness", 0))
                 ELSE e1)
    /\ UNCHANGED presult

CP_ExposureOrBrightness ==
    /\ PStep("custom", "exposure", "highlights",
             IF Get(pcustom, "exposure", 0) # 0
             THEN exposure_adjustment(enh, Get(pcustom, "exposure", 0))
             ELSE IF Get(pcustom, "brightness", 0) # 0
                  THEN brightness_adjustment(enh, Get(pcustom, "brightness", 0))
                  ELSE enh)
    /\ UNCHANGED presult

CP_HighlightsShadows ==
    /\ PStep("custom", "highlights", "vibrance",
             highlights_shadows(enh, Get(pcustom, "highlights", 0),
                                     Get(pcustom, "shadows", 0)))
    /\ UNCHANGED presult

CP_VibranceSaturation ==
    /\ PStep("custom", "vibrance", "clarity",
             vibrance_saturation(enh, Get(pcustom, "vibrance", 0),
                                      Get(pcustom, "saturation", 0)))
    /\ UNCHANGED presult

CP_ClarityStructure ==
    /\ PStep("custom", "clarity", "temperature",
             clarity_structure(enh, Get(pcustom, "clarity", 0),
                                    Get(pcustom, "structure", 0)))
    /\ UNCHANGED presult

\* A variant that hands the dict's tint to color_temperature.
CP_ColorTemperature_with_tint ==
    /\ PStep("custom", "temperature", "portrait",
             color_temperature(enh, Get(pcustom, "temperature", 0),
                               Get(pcustom, "tint", 0)))
    /\ UNCHANGED presult

\* Lines 617-619: color_temperature(temperature=...), tint left at its
\* default 0.
CP_ColorTemperature ==
    /\ PStep("custom", "temperature", "portrait",
             color_temperature(enh, Get(pcustom, "temperature", 0), 0))
    /\ UNCHANGED presult

CP_Portrait ==
    /\ PStep("custom", "portrait", "finish",
             portrait_enhancements(enh, Get(pcustom, "skin_smoothing", 0)))
    /\ UNCHANGED presult

CP_GetResult ==
    /\ pkind = "custom"
    /\ ppc = "finish"
    /\ ppc' = "done"
    /\ presult' = <<get_result(enh), get_history(enh)>>
    /\ UNCHANGED <<sessionVars, pkind, pname, pcustom, formatVars, loaderVars, batchVars, sizeVars, toolVars>>

NextPreset ==
    \/ PS_Lookup
    \/ PS_Exposure
    \/ PS_HighlightsShadows
    \/ PS_VibranceSaturation
    \/ PS_ClarityStructure
    \/ PS_ColorTemperature
    \/ PS_Portrait
    \/ PS_MidtoneAndReturn
    \/ CP_New
    \/ CP_ExposureOrBrightness
    \/ CP_HighlightsShadows
    \/ CP_VibranceSaturation
    \/ CP_ClarityStructure
    \/ CP_ColorTemperature
    \/ CP_Portrait
    \/ CP_GetResult

SpecPreset == InitPreset /\ [][NextPreset]_vars

-----------------------------------------------------------------------------
(* File paths are sequences of one-character strings.                      *)

UpperToLower ==
    [A |-> "a", B |-> "b", C |-> "c", D |-> "d", E |-> "e", F |-> "f",
     G |-> "g", H |-> "h", I |-> "i", J |-> "j", K |-> "k", L |-> "l",
     M |-> "m", N |-> "n", O |-> "o", P |-> "p", Q |-> "q", R |-> "r",
     S |-> "s", T |-> "t", U |-> "u", V |-> "v", W |-> "w", X |-> "x",
     Y |-> "y", Z |-> "z"]

\* str.lower()
lower(s) ==
    [i \in DOMAIN s |-> IF s[i] \in DOMAIN UpperToLower
                        THEN UpperToLower[s[i]] ELSE s[i]]

\* str.endswith(suffix)
endswith(s, suffix) ==
    /\ Len(s) >= Len(suffix)
    /\ SubSeq(s, Len(s) - Len(suffix) + 1, Len(s)) = suffix

\* str.rfind(c), counting positions from 1; 0 when c does not occur
rfind(s, c) ==
    IF \E i \in DOMAIN s : s[i] = c
    THEN CHOOSE i \in DOMAIN s : s[i] = c /\ \A j \in DOMAIN s : s[j] = c => j <= i
    ELSE 0

\* os.path.basename / Path(...).name
basename(path) == SubSeq(path, rfind(path, "/") + 1, Len(path))

\* Path(...).suffix: the text from the last dot of the name, when that dot
\* is neither the first nor the last character of the name
Path_suffix(path) ==
    LET name == basename(path)
        i == rfind(name, ".")
    IN  IF 1 < i /\ i < Len(name) THEN SubSeq(name, i, Len(name)) ELSE <<>>

\* os.path.splitext(name)[0]: the name up to its last dot, when a character
\* other than a dot precedes it
splitext_stem(name) ==
    LET i == rfind(name, ".")
    IN  IF i > 1 /\ \E j \in 1..(i-1) : name[j] # "."
        THEN SubSeq(name, 1, i - 1) ELSE name

-----------------------------------------------------------------------------
(* FormatOptimizer (utils/format_optimizer.py) *)

raw_extensions ==
    { <<".", "n", "e", "f">>, <<".", "c", "r", "2">>, <<".", "a", "r", "w">>,
      <<".", "d", "n", "g">>, <<".", "r", "a", "f">>, <<".", "o", "r", "f">>,
      <<".", "r", "w", "2">>, <<".", "p", "e", "f">>, <<".", "s", "r", "w">> }

jpeg_extensions ==
    { <<".", "j", "p", "g">>, <<".", "j", "p", "e", "g">>,
      <<".", "j", "p", "e">>, <<".", "j", "f", "i", "f">> }

\* A variant whose RAW entry for landscape names a preset the catalog lacks.
preset_mapping_unknown_variant ==
    [ sports_action     |-> [raw |-> "sports_action_raw", jpeg |-> "sports_action"],
      portrait_dramatic |-> [raw |-> "portrait_dramatic_raw", jpeg |-> "portrait_dramatic"],
      portrait_natural  |-> [raw |-> "portrait_natural_raw", jpeg |-> "portrait_natural"],
      portrait_subtle   |-> [raw |-> "portrait_subtle_raw", jpeg |-> "portrait_subtle"],
      natural_wildlife  |-> [raw |-> "natural_wildlife_raw", jpeg |-> "natural_wildlife"],
      landscape         |-> [raw |-> "landscape_hdr", jpeg |-> "landscape"] ]

preset_mapping ==
    [ sports_action     |-> [raw |-> "sports_action_raw", jpeg |-> "sports_action"],
      portrait_dramatic |-> [raw |-> "portrait_dramatic_raw", jpeg |-> "portrait_dramatic"],
      portrait_natural  |-> [raw |-> "portrait_natural_raw", jpeg |-> "portrait_natural"],
      portrait_subtle   |-> [raw |-> "portrait_subtle_raw", jpeg |-> "portrait_subtle"],
      natural_wildlife  |-> [raw |-> "natural_wildlife_raw", jpeg |-> "natural_wildlife"],
      landscape         |-> [raw |-> "landscape_raw", jpeg |-> "landscape"] ]

\* A variant that compares the suffix as written, without lowering it.
detect_file_format_case_sensitive(filepath) ==
    LET file_ext == Path_suffix(filepath)
    IN  IF file_ext \in raw_extensions THEN "raw"
        ELSE IF file_ext \in jpeg_extensions THEN "jpeg"
        ELSE "unknown"

detect_file_format(filepath) ==
    LET file_ext == lower(Path_suffix(filepath))
    IN  IF file_ext \in raw_extensions THEN "raw"
        ELSE IF file_ext \in jpeg_extensions THEN "jpeg"
        ELSE "unknown"

get_optimal_preset(filepath, requested_preset) ==
    LET file_format == detect_file_format(filepath)
    IN  IF file_format = "unknown"
        THEN requested_preset
        ELSE IF requested_preset \in DOMAIN preset_mapping
             THEN preset_mapping[requested_preset][file_format]
             ELSE requested_preset

get_format_info(filepath) ==
    [filename |-> basename(filepath),
     format |-> detect_file_format(filepath),
     extension |-> lower(Path_suffix(filepath)),
     is_raw |-> detect_file_format(filepath) = "raw",
     is_jpeg |-> detect_file_format(filepath) = "jpeg"]

\* The paths and names the optimizer is exercised with: a directory part,
\* a stem and an extension (possibly none), in several spellings.
TestDirs ==
    { <<>>, <<"d", "/">>, <<"d", ".", "n", "e", "f", "/">> }

TestStems ==
    { <<"a">>, <<"b", ".", "j", "p", "g">> }

TestExts ==
    { <<".", "n", "e", "f">>, <<".", "N", "E", "F">>, <<".", "N", "e", "f">>,
      <<".", "c", "r", "2">>, <<".", "C", "R", "2">>, <<".", "a", "r", "w">>,
      <<".", "d", "n", "g">>, <<".", "r", "a", "f">>, <<".", "o", "r", "f">>,
      <<".", "r", "w", "2">>, <<".", "p", "e", "f">>, <<".", "S", "R", "W">>,
      <<".", "j", "p", "g">>, <<".", "J", "P", "G">>, <<".", "j", "p", "e", "g">>,
      <<".", "J", "p", "e", "g">>, <<".", "j", "p", "e">>, <<".", "j", "f", "i", "f">>,
      <<".", "p", "n", "g">>, <<".", "r", "a", "w">>, <<".", "x", "y", "z">>,
      <<".", "n", "e", "f", "x">>, <<>> }

TestPaths ==
    { d \o st \o e : d \in TestDirs, st \in {<<"a">>}, e \in TestExts }
    \cup { d \o st \o e : d \in TestDirs, st \in TestStems, e \in TestExts \ {<<>>} }

RequestedNames == PresetNames \cup DOMAIN preset_mapping \cup {UnknownPreset, "custom"}

InitFormat ==
    /\ fpath \in TestPaths
    /\ frequested \in RequestedNames
    /\ fpc = "ready"
    /\ fresult = "none"
    /\ image = <<>>
    /\ SessionIdle
    /\ PresetIdle
    /\ LoaderIdle
    /\ BatchIdle
    /\ SizeIdle
    /\ ToolsIdle

FO_GetOptimalPreset ==
    /\ fpc = "ready"
    /\ fresult' = get_optimal_preset(fpath, frequested)
    /\ fpc' = "returned"
    /\ UNCHANGED <<fpath, frequested, sessionVars, presetVars, loaderVars, batchVars, sizeVars, toolVars>>

NextFormat == FO_GetOptimalPreset

SpecFormat == InitFormat /\ [][NextFormat]_vars

-----------------------------------------------------------------------------
(* Image loading (utils/raw_processing_enhanced.py).  fails tells, for the *)
(* file at hand, which of the decode strategies raise: the enhanced rawpy  *)
(* decode, the standard rawpy decode, PIL's Image.open(...).convert.       *)

Strategies == {"enhanced", "standard", "pil"}

FailureOracles == [Strategies -> BOOLEAN]

raw_extensions_tuple ==
    { <<".", "n", "e", "f">>, <<".", "N", "E", "F">>,
      <<".", "r", "a", "w">>, <<".", "R", "A", "W">>,
      <<".", "c", "r", "2">>, <<".", "C", "R", "2">>,
      <<".", "a", "r", "w">>, <<".", "A", "R", "W">>,
      <<".", "d", "n", "g">>, <<".", "D", "N", "G">>,
      <<".", "o", "r", "f">>, <<".", "O", "R", "F">> }

is_raw_file(file_path) ==
    \E e \in raw_extensions_tuple : endswith(lower(file_path), e)

\* The buffer a decode of the file gives.
FilePixels(file_path) == << <<"file", file_path>> >>

pil_open_rgb(file_path, fails) ==
    IF fails["pil"]
    THEN [ok |-> FALSE, error |-> "pil_error", tried |-> <<"pil">>]
    ELSE [ok |-> TRUE, strategy |-> "pil", tried |-> <<"pil">>,
          img |-> Append(FilePixels(file_path), <<"convert_rgb">>)]

\* A variant that gives up when the standard decode fails.
load_raw_image_standard_no_fallback(file_path, fails) ==
    IF ~fails["standard"]
    THEN [ok |-> TRUE, strategy |-> "standard", tried |-> <<"standard">>,
          img |-> Append(FilePixels(file_path), <<"raw_postprocess_standard">>)]
    ELSE [ok |-> FALSE, error |-> "standard_error", tried |-> <<"standard">>]

load_raw_image_standard(file_path, fails) ==
    IF ~fails["standard"]
    THEN [ok |-> TRUE, strategy |-> "standard", tried |-> <<"standard">>,
          img |-> Append(FilePixels(file_path), <<"raw_postprocess_standard">>)]
    ELSE LET r == pil_open_rgb(file_path, fails)
         IN  [r EXCEPT !.tried = <<"standard">> \o @]

load_raw_image_enhanced(file_path, apply_enhancements, fails) ==
    IF ~fails["enhanced"]
    THEN LET decoded == Append(FilePixels(file_path), <<"raw_postprocess", 140, 40>>)
             toned == IF apply_enhancements
                      THEN Append(decoded, <<"tone_curve", 85>>)
                      ELSE decoded
             final == IF apply_enhancements
                      THEN Append(toned, <<"raw_vibrancy", 125, 135, 115, 108>>)
                      ELSE toned
         IN  [ok |-> TRUE, strategy |-> "enhanced", tried |-> <<"enhanced">>,
              img |-> final]
    ELSE LET r == load_raw_image_standard(file_path, fails)
         IN  [r EXCEPT !.tried = <<"enhanced">> \o @]

load_image_smart_enhanced(file_path, fails) ==
    IF is_raw_file(file_path)
    THEN load_raw_image_enhanced(file_path, TRUE, fails)
    ELSE pil_open_rgb(file_path, fails)

load_image_basic(file_path, fails) ==
    IF is_raw_file(file_path)
    THEN load_raw_image_standard(file_path, fails)
    ELSE pil_open_rgb(file_path, fails)

LoaderPaths ==
    { <<"a", ".", "n", "e", "f">>, <<"a", ".", "N", "E", "F">>,
      <<"a", ".", "r", "a", "w">>, <<"a", ".", "r", "a", "f">>,
      <<"a", ".", "j", "p", "g">>, <<"a", ".", "p", "n", "g">>,
      <<"d", ".", "n", "e", "f", "/", "a">>,
      <<"b", ".", "j", "p", "g", ".", "d", "n", "g">> }

InitLoader ==
    /\ lpath \in LoaderPaths
    /\ lfails \in FailureOracles
    /\ lcall = "none"
    /\ lresult = <<>>
    /\ image = <<>>
    /\ SessionIdle
    /\ PresetIdle
    /\ FormatIdle
    /\ BatchIdle
    /\ SizeIdle
    /\ ToolsIdle

LoaderCall(name, r) ==
    /\ lcall = "none"
    /\ lcall' = name
    /\ lresult' = r
    /\ UNCHANGED <<lpath, lfails, sessionVars, presetVars, formatVars, batchVars, sizeVars, toolVars>>

L_LoadRawImageEnhanced ==
    \E apply_enhancements \in BOOLEAN :
        LoaderCall("load_raw_image_enhanced",
                   load_raw_image_enhanced(lpath, apply_enhancements, lfails))

L_LoadRawImageStandard ==
    LoaderCall("load_raw_image_standard", load_raw_image_standard(lpath, lfails))

L_LoadImageSmartEnhanced ==
    LoaderCall("load_image_smart_enhanced", load_image_smart_enhanced(lpath, lfails))

L_LoadImageBasic ==
    LoaderCall("load_image_basic", load_image_basic(lpath, lfails))

NextLoader ==
    \/ L_LoadRawImageEnhanced
    \/ L_LoadRawImageStandard
    \/ L_LoadImageSmartEnhanced
    \/ L_LoadImageBasic

SpecLoader == InitLoader /\ [][NextLoader]_vars

-----------------------------------------------------------------------------
(* The batch driver process_images_with_photoshop_preset (process_photos.py) *)
(* with its collaborators of utils/file_operations.py and                   *)
(* utils/image_processing.py (SpecBatch).                                   *)

MaxFiles == 2

\* utils/config.py
RESOLUTIONS ==
    << [label |-> "2k", total_pixels |-> 2560 * 1440],
       [label |-> "4k", total_pixels |-> 3840 * 2160] >>

WATERMARK_OPACITY == 90

WATERMARK_SCALE == 15

\* The files an input folder or archive may hold.
FilePool ==
    << <<"a", ".", "j", "p", "g">>, <<"b", ".", "J", "P", "G">>,
       <<"a", ".", "p", "n", "g">>, <<"c", ".", "n", "e", "f">> >>

Listings ==
    { SelectSeq(FilePool, LAMBDA f : f \in chosen) :
        chosen \in { c \in SUBSET Range(FilePool) : Cardinality(c) <= MaxFiles } }

BatchPresets == {"portrait_subtle", "studio_portrait", "sports_action", UnknownPreset}

\* The buffer statistics met by apply_midtone_protection in a batch.
BatchStats ==
    { [pct |-> 60, mean |-> 180, target |-> TRUE],
      [pct |-> 10, mean |-> 100, target |-> FALSE] }

image_extensions ==
    { <<".", "j", "p", "g">>, <<".", "j", "p", "e", "g">>, <<".", "p", "n", "g">> }

is_image_name(file) ==
    \E e \in image_extensions : endswith(lower(file), e)

\* extract_zip_if_needed: the working folder's files, is_temp, and whether a
\* temporary directory is left on disk; None when the extraction fails.
extract_zip_if_needed(kind, files) ==
    IF kind = "zip"
    THEN [working |-> SelectSeq(files, is_image_name), is_temp |-> TRUE,
          temp_left |-> TRUE, none |-> FALSE]
    ELSE IF kind = "bad_zip"
         THEN [working |-> <<>>, is_temp |-> FALSE, temp_left |-> FALSE,
               none |-> TRUE]
         ELSE [working |-> files, is_temp |-> FALSE, temp_left |-> FALSE,
               none |-> FALSE]

get_image_files_from_directory(files) == SelectSeq(files, is_image_name)

\* The objects the loaders return are plain images without _getexif, so
\* the AttributeError branch is taken and the image is returned as it is.
fix_image_orientation(img) == img

get_mode_prefix(name) ==
    CASE name = "portrait_subtle"      -> "sub"
      [] name = "portrait_natural"     -> "nat"
      [] name = "portrait_dramatic"    -> "drm"
      [] name = "studio_portrait"      -> "std"
      [] name = "overexposed_recovery" -> "ovr"
      [] name = "natural_wildlife"     -> "wld"
      [] name = "enhanced"             -> "enh"
      [] name = "resize_watermark"     -> "rsz"
      [] name = "watermark"            -> "wtm"
      [] name = "resize_only"          -> "res"
      [] name = "custom"               -> "cst"
      [] OTHER                         -> "prc"

\* A variant without the except clause around the opening of the logo: the
\* image is marked even though the logo could not be read.
add_watermark_without_soft_fail(img, opacity, scale, logo_readable) ==
    Append(img, <<"watermark", opacity, scale>>)

\* add_watermark: the unmodified copy when the logo cannot be opened
add_watermark(img, opacity, scale, logo_readable) ==
    IF ~logo_readable
    THEN img
    ELSE Append(img, <<"watermark", opacity, scale>>)

\* f'{original_name}_{mode_prefix}.jpg'
OutputName(full_path, name) ==
    <<splitext_stem(basename(full_path)), get_mode_prefix(name)>>

\* final_img.save(output_path): the file replaces one of the same name
SaveFile(folder, name, content) ==
    { f \in folder : f[1] # name } \cup { <<name, content>> }

FormatCount(files, fmt) ==
    Cardinality({ i \in DOMAIN files : detect_file_format(files[i]) = fmt })

InitBatch ==
    /\ b_pc = "start"
    /\ b_outcome = "running"
    /\ input_kind \in {"folder", "zip", "bad_zip"}
    /\ directory \in Listings
    /\ preset_name \in BatchPresets
    /\ mode = "none"
    /\ ENABLE_WATERMARK \in BOOLEAN
    /\ logo_ok \in BOOLEAN
    /\ is_temp = FALSE
    /\ temp_exists = FALSE
    /\ input_exists = TRUE
    /\ image_files = <<>>
    /\ li = 0
    /\ fi = 0
    /\ cur = <<>>
    /\ alog = <<>>
    /\ attempts = <<>>
    /\ outputs = [l \in DOMAIN RESOLUTIONS |-> {}]
    /\ console = <<>>
    /\ image = <<>>
    /\ SessionIdle
    /\ PresetIdle
    /\ FormatIdle
    /\ LoaderIdle
    /\ SizeIdle
    /\ ToolsIdle

NotBatch == <<sessionVars, presetVars, formatVars, loaderVars, sizeVars, toolVars>>

BatchConfig == <<input_kind, directory, preset_name, mode, ENABLE_WATERMARK,
                 logo_ok>>

disk == <<temp_exists, input_exists>>

\* cleanup_temp_directory(working_folder): shutil.rmtree of the folder it is
\* given, the temporary directory or the folder of input_path.
cleanup_temp_directory(working_is_temp) ==
    IF working_is_temp
    THEN temp_exists' = FALSE /\ input_exists' = input_exists
    ELSE input_exists' = FALSE /\ temp_exists' = temp_exists

\* A variant of the finally clause without the test of is_temp.
finally_clause_unconditional(temp) ==
    cleanup_temp_directory(temp)

\* Lines 487-490: the finally clause; working_folder is the temporary
\* directory exactly when is_temp.
finally_clause(temp) ==
    IF temp
    THEN cleanup_temp_directory(temp)
    ELSE UNCHANGED disk

\* Lines 379-419: extraction, enumeration, format analysis.
B_Start ==
    /\ b_pc = "start"
    /\ LET x == extract_zip_if_needed(input_kind, directory)
           files == get_image_files_from_directory(x.working)
       IN  IF x.none
           THEN /\ console' = Append(console, [kind |-> "failed_input"])
                /\ b_pc' = "done"
                /\ b_outcome' = "returned"
                /\ UNCHANGED <<is_temp, disk, image_files, li>>
           ELSE /\ is_temp' = x.is_temp
                /\ image_files' = files
                /\ IF files = <<>>
                   THEN /\ console' = Append(console, [kind |-> "no_images"])
                        /\ finally_clause(x.is_temp)
                        /\ b_pc' = "done"
                        /\ b_outcome' = "returned"
                        /\ UNCHANGED li
                   ELSE /\ console' = console \o
                              << [kind |-> "found", n |-> Len(files)] >> \o
                              (IF FormatCount(files, "raw") > 0 \/ FormatCount(files, "jpeg") > 0
                               THEN << [kind |-> "format_analysis",
                                        raw |-> FormatCount(files, "raw"),
                                        jpeg |-> FormatCount(files, "jpeg"),
                                        unknown |-> FormatCount(files, "unknown")] >>
                               ELSE <<>>)
                        /\ temp_exists' = x.temp_left
                        /\ input_exists' = input_exists
                        /\ b_pc' = "label"
                        /\ li' = 1
                        /\ UNCHANGED b_outcome
    /\ UNCHANGED <<BatchConfig, fi, cur, alog, attempts, outputs, NotBatch>>

\* Lines 421-427: the next entry of RESOLUTIONS.
B_BeginLabel ==
    /\ b_pc = "label"
    /\ li <= Len(RESOLUTIONS)
    /\ fi' = 1
    /\ b_pc' = "decode"
    /\ console' = Append(console, [kind |-> "processing", label |-> RESOLUTIONS[li].label])
    /\ UNCHANGED <<b_outcome, BatchConfig, is_temp, disk, image_files,
                   li, cur, alog, attempts, outputs, NotBatch>>

\* What follows one iteration: the next file, or the archive of the folder.
AfterFile == IF fi < Len(image_files) THEN "decode" ELSE "zip"

NextStage(stage) ==
    CASE stage = "decode"    -> "adjust"
      [] stage = "adjust"    -> "resize"
      [] stage = "resize"    -> "watermark"
      [] stage = "watermark" -> "encode"
      [] stage = "encode"    -> AfterFile

\* A variant in which a failing file ends the loop over the files.
BatchFail_abort(stage, log) ==
    /\ alog' = Append(log, [stage |-> stage, ok |-> FALSE])
    /\ console' = Append(console, [kind |-> "failed", file |-> basename(image_files[fi])])
    /\ b_pc' = "zip"
    /\ fi' = fi
    /\ UNCHANGED <<cur, outputs>>

\* A variant in which the stage after the failing one still runs.
BatchFail_continue(stage, log) ==
    /\ alog' = Append(log, [stage |-> stage, ok |-> FALSE])
    /\ console' = Append(console, [kind |-> "failed", file |-> basename(image_files[fi])])
    /\ b_pc' = NextStage(stage)
    /\ fi' = IF stage = "encode" /\ fi < Len(image_files) THEN fi + 1 ELSE fi
    /\ UNCHANGED <<cur, outputs>>

\* Lines 478-480: the except clause of the iteration.
BatchFail(stage, log) ==
    /\ alog' = Append(log, [stage |-> stage, ok |-> FALSE])
    /\ console' = Append(console, [kind |-> "failed", file |-> basename(image_files[fi])])
    /\ b_pc' = AfterFile
    /\ fi' = IF fi < Len(image_files) THEN fi + 1 ELSE fi
    /\ UNCHANGED <<cur, outputs>>

StageOk(stage, log, img) ==
    /\ alog' = Append(log, [stage |-> stage, ok |-> TRUE])
    /\ cur' = img
    /\ b_pc' = NextStage(stage)

\* Lines 431-434.
B_Decode ==
    /\ b_pc = "decode"
    /\ attempts' = Append(attempts, <<li, fi>>)
    /\ \E fails \in FailureOracles :
         LET r == load_image_smart_enhanced(image_files[fi], fails)
         IN  IF r.ok
             THEN /\ StageOk("decode", <<>>, fix_image_orientation(r.img))
                  /\ UNCHANGED <<fi, console, outputs>>
             ELSE BatchFail("decode", <<>>)
    /\ UNCHANGED <<b_outcome, BatchConfig, is_temp, disk, image_files,
                   li, NotBatch>>

\* Lines 436-452.
B_Adjust ==
    /\ b_pc = "adjust"
    /\ \E st \in BatchStats, other_error \in BOOLEAN :
         LET optimal_preset == get_optimal_preset(image_files[fi], preset_name)
             r == apply_photoshop_preset(cur, optimal_preset, st)
         IN  IF r.raised \/ other_error
             THEN BatchFail("adjust", alog)
             ELSE /\ StageOk("adjust", alog, r.result)
                  /\ console' = Append(console,
                        [kind |-> "history", file |-> basename(image_files[fi])])
                  /\ UNCHANGED <<fi, outputs>>
    /\ UNCHANGED <<b_outcome, BatchConfig, is_temp, disk, image_files,
                   li, attempts, NotBatch>>

\* Lines 454-462.
B_Resize ==
    /\ b_pc = "resize"
    /\ \E ok \in BOOLEAN :
         IF ok
         THEN /\ StageOk("resize", alog,
                         Append(cur, <<"resize", RESOLUTIONS[li].total_pixels>>))
              /\ UNCHANGED <<fi, console, outputs>>
         ELSE BatchFail("resize", alog)
    /\ UNCHANGED <<b_outcome, BatchConfig, is_temp, disk, image_files,
                   li, attempts, NotBatch>>

\* Lines 464-467.  With an unreadable logo add_watermark returns at
\* image_processing.py:92, before the statements that can raise.
B_Watermark ==
    /\ b_pc = "watermark"
    /\ IF ENABLE_WATERMARK
       THEN \E ok \in (IF logo_ok THEN BOOLEAN ELSE {TRUE}) :
               IF ok
               THEN /\ StageOk("watermark", alog,
                               add_watermark(cur, WATERMARK_OPACITY,
                                             WATERMARK_SCALE, logo_ok))
                    /\ UNCHANGED <<fi, console, outputs>>
               ELSE BatchFail("watermark", alog)
       ELSE /\ b_pc' = "encode"
            /\ UNCHANGED <<fi, cur, alog, console, outputs>>
    /\ UNCHANGED <<b_outcome, BatchConfig, is_temp, disk, image_files,
                   li, attempts, NotBatch>>

\* Lines 469-476.
B_Encode ==
    /\ b_pc = "encode"
    /\ \E ok \in BOOLEAN :
         IF ok
         THEN /\ StageOk("encode", alog, cur)
              /\ outputs' = [outputs EXCEPT ![li] =
                    SaveFile(@, OutputName(image_files[fi], preset_name), cur)]
              /\ fi' = IF fi < Len(image_files) THEN fi + 1 ELSE fi
              /\ UNCHANGED console
         ELSE BatchFail("encode", alog)
    /\ UNCHANGED <<b_outcome, BatchConfig, is_temp, disk, image_files,
                   li, attempts, NotBatch>>

\* Lines 482-485, and the finally clause when the archive cannot be written.
B_ZipArchive ==
    /\ b_pc = "zip"
    /\ \E ok \in BOOLEAN :
         IF ok
         THEN /\ console' = Append(console, [kind |-> "finished", label |-> RESOLUTIONS[li].label])
              /\ li' = li + 1
              /\ b_pc' = "label"
              /\ UNCHANGED <<b_outcome, disk>>
         ELSE /\ finally_clause(is_temp)
              /\ b_pc' = "done"
              /\ b_outcome' = "raised"
              /\ UNCHANGED <<console, li>>
    /\ UNCHANGED <<BatchConfig, is_temp, image_files, fi, cur, alog, attempts,
                   outputs, NotBatch>>

\* Lines 487-490: the finally clause at the end of the loops.
B_Finish ==
    /\ b_pc = "label"
    /\ li > Len(RESOLUTIONS)
    /\ finally_clause(is_temp)
    /\ b_pc' = "done"
    /\ b_outcome' = "returned"
    /\ UNCHANGED <<BatchConfig, is_temp, image_files, li, fi, cur, alog,
                   attempts, outputs, console, NotBatch>>

NextBatch ==
    \/ B_Start
    \/ B_BeginLabel
    \/ B_Decode
    \/ B_Adjust
    \/ B_Resize
    \/ B_Watermark
    \/ B_Encode
    \/ B_ZipArchive
    \/ B_Finish

SpecBatch == InitBatch /\ [][NextBatch]_vars

-----------------------------------------------------------------------------
(* The mode driver process_images (process_photos.py:155-289), on the      *)
(* variables of the batch driver (SpecModes).                               *)

Modes == {"full", "resize_watermark", "watermark", "resize_only"}

\* analyze_and_adjust_lighting(img): the image after the lighting analysis
analyze_and_adjust_lighting(img) == Append(img, <<"analyze_and_adjust_lighting">>)

InitModes ==
    /\ b_pc = "start"
    /\ b_outcome = "running"
    /\ input_kind \in {"folder", "zip", "bad_zip"}
    /\ directory \in Listings
    /\ preset_name = "none"
    /\ mode \in Modes
    /\ ENABLE_WATERMARK \in BOOLEAN
    /\ logo_ok \in BOOLEAN
    /\ is_temp = FALSE
    /\ temp_exists = FALSE
    /\ input_exists = TRUE
    /\ image_files = <<>>
    /\ li = 0
    /\ fi = 0
    /\ cur = <<>>
    /\ alog = <<>>
    /\ attempts = <<>>
    /\ outputs = [l \in DOMAIN RESOLUTIONS |-> {}]
    /\ console = <<>>
    /\ image = <<>>
    /\ SessionIdle
    /\ PresetIdle
    /\ FormatIdle
    /\ LoaderIdle
    /\ SizeIdle
    /\ ToolsIdle

\* Lines 165-185: extraction and enumeration.
PI_Start ==
    /\ b_pc = "start"
    /\ LET x == extract_zip_if_needed(input_kind, directory)
           files == get_image_files_from_directory(x.working)
       IN  IF x.none
           THEN /\ console' = Append(console, [kind |-> "failed_input"])
                /\ b_pc' = "done"
                /\ b_outcome' = "returned"
                /\ UNCHANGED <<is_temp, disk, image_files, li>>
           ELSE /\ is_temp' = x.is_temp
                /\ image_files' = files
                /\ IF files = <<>>
                   THEN /\ console' = Append(console, [kind |-> "no_images"])
                        /\ finally_clause(x.is_temp)
                        /\ b_pc' = "done"
                        /\ b_outcome' = "returned"
                        /\ UNCHANGED li
                   ELSE /\ console' = Append(console, [kind |-> "found", n |-> Len(files)])
                        /\ temp_exists' = x.temp_left
                        /\ input_exists' = input_exists
                        /\ b_pc' = "label"
                        /\ li' = 1
                        /\ UNCHANGED b_outcome
    /\ UNCHANGED <<BatchConfig, fi, cur, alog, attempts, outputs, NotBatch>>

\* Lines 187-194: the next entry of RESOLUTIONS.
PI_BeginLabel ==
    /\ b_pc = "label"
    /\ li <= Len(RESOLUTIONS)
    /\ fi' = 1
    /\ b_pc' = "decode"
    /\ console' = Append(console, [kind |-> "processing", label |-> RESOLUTIONS[li].label])
    /\ UNCHANGED <<b_outcome, BatchConfig, is_temp, disk, image_files,
                   li, cur, alog, attempts, outputs, NotBatch>>

\* Lines 198-202: the loader of the mode.
PI_loader(m, full_path, fails) ==
    IF m = "watermark" \/ m = "resize_watermark" \/ m = "resize_only"
    THEN [loader |-> "load_image_basic",
          r |-> load_image_basic(full_path, fails)]
    ELSE [loader |-> "load_image_smart_enhanced",
          r |-> load_image_smart_enhanced(full_path, fails)]

\* Lines 198-205.
PI_Load ==
    /\ b_pc = "decode"
    /\ attempts' = Append(attempts, <<li, fi>>)
    /\ \E fails \in FailureOracles :
         LET loaded == PI_loader(mode, image_files[fi], fails)
         IN  IF loaded.r.ok
             THEN /\ alog' = << [stage |-> "decode", ok |-> TRUE,
                                 loader |-> loaded.loader] >>
                  /\ cur' = fix_image_orientation(loaded.r.img)
                  /\ b_pc' = IF mode = "full" THEN "adjust" ELSE "resize"
                  /\ UNCHANGED <<fi, console, outputs>>
             ELSE BatchFail("decode", <<>>)
    /\ UNCHANGED <<b_outcome, BatchConfig, is_temp, disk, image_files,
                   li, NotBatch>>

\* Lines 207-209: the lighting adjustment of the full mode.
PI_Lighting ==
    /\ b_pc = "adjust"
    /\ \E ok \in BOOLEAN :
         IF ok
         THEN /\ alog' = Append(alog, [stage |-> "adjust", ok |-> TRUE])
              /\ cur' = analyze_and_adjust_lighting(cur)
              /\ b_pc' = "resize"
              /\ UNCHANGED <<fi, console, outputs>>
         ELSE BatchFail("adjust", alog)
    /\ UNCHANGED <<b_outcome, BatchConfig, is_temp, disk, image_files,
                   li, attempts, NotBatch>>

\* Lines 211-254: the resize of the modes full, resize_watermark and
\* resize_only; the watermark mode keeps the size.
PI_Resize ==
    /\ b_pc = "resize"
    /\ IF mode \in {"full", "resize_watermark", "resize_only"}
       THEN \E ok \in BOOLEAN :
               IF ok
               THEN /\ alog' = Append(alog, [stage |-> "resize", ok |-> TRUE])
                    /\ cur' = Append(cur, <<"resize", RESOLUTIONS[li].total_pixels>>)
                    /\ b_pc' = "watermark"
                    /\ UNCHANGED <<fi, console, outputs>>
               ELSE BatchFail("resize", alog)
       ELSE /\ b_pc' = "watermark"
            /\ UNCHANGED <<fi, cur, alog, console, outputs>>
    /\ UNCHANGED <<b_outcome, BatchConfig, is_temp, disk, image_files,
                   li, attempts, NotBatch>>

\* A variant of the test of line 257 that looks at the configuration only.
PI_watermark_wanted_any_mode(enabled, m) == enabled

\* Line 257: ENABLE_WATERMARK and mode != 'resize_only'
PI_watermark_wanted(enabled, m) == enabled /\ m # "resize_only"

\* Lines 256-267.
PI_Watermark ==
    /\ b_pc = "watermark"
    /\ IF PI_watermark_wanted(ENABLE_WATERMARK, mode)
       THEN \E ok \in (IF logo_ok THEN BOOLEAN ELSE {TRUE}) :
               IF ok
               THEN /\ alog' = Append(alog, [stage |-> "watermark", ok |-> TRUE])
                    /\ cur' = add_watermark(cur, WATERMARK_OPACITY, WATERMARK_SCALE, logo_ok)
                    /\ console' = Append(console,
                          [kind |-> "added_watermark", file |-> basename(image_files[fi])])
                    /\ b_pc' = "encode"
                    /\ UNCHANGED <<fi, outputs>>
               ELSE BatchFail("watermark", alog)
       ELSE /\ console' = Append(console,
                  [kind |-> IF mode = "resize_only" THEN "resize_only"
                            ELSE "watermark_disabled",
                   file |-> basename(image_files[fi])])
            /\ b_pc' = "encode"
            /\ UNCHANGED <<fi, cur, alog, outputs>>
    /\ UNCHANGED <<b_outcome, BatchConfig, is_temp, disk, image_files,
                   li, attempts, NotBatch>>

\* Lines 269-276.
PI_Save ==
    /\ b_pc = "encode"
    /\ \E ok \in BOOLEAN :
         IF ok
         THEN /\ alog' = Append(alog, [stage |-> "encode", ok |-> TRUE])
              /\ outputs' = [outputs EXCEPT ![li] =
                    SaveFile(@, OutputName(image_files[fi], mode), cur)]
              /\ b_pc' = AfterFile
              /\ fi' = IF fi < Len(image_files) THEN fi + 1 ELSE fi
              /\ UNCHANGED <<cur, console>>
         ELSE BatchFail("encode", alog)
    /\ UNCHANGED <<b_outcome, BatchConfig, is_temp, disk, image_files,
                   li, attempts, NotBatch>>

\* Lines 281-284, and the finally clause when the archive cannot be written.
PI_ZipArchive ==
    /\ b_pc = "zip"
    /\ \E ok \in BOOLEAN :
         IF ok
         THEN /\ console' = Append(console, [kind |-> "finished", label |-> RESOLUTIONS[li].label])
              /\ li' = li + 1
              /\ b_pc' = "label"
              /\ UNCHANGED <<b_outcome, disk>>
         ELSE /\ finally_clause(is_temp)
              /\ b_pc' = "done"
              /\ b_outcome' = "raised"
              /\ UNCHANGED <<console, li>>
    /\ UNCHANGED <<BatchConfig, is_temp, image_files, fi, cur, alog, attempts,
                   outputs, NotBatch>>

\* Lines 286-289: the finally clause at the end of the loops.
PI_Finish ==
    /\ b_pc = "label"
    /\ li > Len(RESOLUTIONS)
    /\ finally_clause(is_temp)
    /\ b_pc' = "done"
    /\ b_outcome' = "returned"
    /\ UNCHANGED <<BatchConfig, is_temp, image_files, li, fi, cur, alog,
                   attempts, outputs, console, NotBatch>>

NextModes ==
    \/ PI_Start
    \/ PI_BeginLabel
    \/ PI_Load
    \/ PI_Lighting
    \/ PI_Resize
    \/ PI_Watermark
    \/ PI_Save
    \/ PI_ZipArchive
    \/ PI_Finish

SpecModes == InitModes /\ [][NextModes]_vars

-----------------------------------------------------------------------------
(* Single-precision arithmetic, as numpy computes on float32 arrays and    *)
(* PIL's blend on C floats: every operation returns the float nearest to   *)
(* the exact result, ties to the even significand.  A float is 0 or        *)
(* m * 2^e with 2^23 <= m < 2^24; only values >= 0 occur, and none near    *)
(* the ends of the exponent range.                                         *)

f32_zero == [m |-> 0, e |-> 0]

\* the number of binary digits of sig, 0 <= sig < 2^30
bit_length(sig) ==
    CHOOSE k \in 0..30 :
        IF k = 0 THEN sig = 0 ELSE 2^(k - 1) <= sig /\ sig < 2^k

\* The float nearest to sig * 2^e, or to a value just above it when sticky.
f32_round(sig, e, sticky) ==
    IF sig = 0
    THEN f32_zero
    ELSE LET n == bit_length(sig)
         IN  IF n <= 24
             THEN [m |-> sig * 2^(24 - n), e |-> e - (24 - n)]
             ELSE LET k == n - 24
                      q == sig \div 2^k
                      r == sig % 2^k
                      half == 2^(k - 1)
                      up == r > half \/ (r = half /\ (sticky \/ q % 2 = 1))
                      q1 == IF up THEN q + 1 ELSE q
                  IN  IF q1 = 2^24
                      THEN [m |-> 2^23, e |-> e + k + 1]
                      ELSE [m |-> q1, e |-> e + k]

f32_from_int(n) == f32_round(n, 0, FALSE)

f32_less(a, b) ==
    IF a.m = 0 THEN b.m # 0
    ELSE IF b.m = 0 THEN FALSE
    ELSE a.e < b.e \/ (a.e = b.e /\ a.m < b.m)

\* The 48-bit product of the significands is formed from 12-bit halves.
f32_mul(a, b) ==
    IF a.m = 0 \/ b.m = 0
    THEN f32_zero
    ELSE LET ah == a.m \div 4096
             al == a.m % 4096
             bh == b.m \div 4096
             bl == b.m % 4096
             cross == ah * bl + al * bh
             lo_raw == (cross % 4096) * 4096 + al * bl
             lo == lo_raw % 2^24
             hi == ah * bh + cross \div 4096 + lo_raw \div 2^24
         IN  f32_round(hi * 64 + lo \div 2^18, a.e + b.e + 18, lo % 2^18 # 0)

f32_add(a, b) ==
    IF a.m = 0 THEN b
    ELSE IF b.m = 0 THEN a
    ELSE LET x == IF a.e >= b.e THEN a ELSE b
             y == IF a.e >= b.e THEN b ELSE a
             d == x.e - y.e
         IN  IF d > 26
             THEN x
             ELSE f32_round(x.m * 8 + (y.m * 8) \div 2^d, x.e - 3,
                            (y.m * 8) % 2^d # 0)

\* a - b for a >= b
f32_sub(a, b) ==
    IF b.m = 0 THEN a
    ELSE LET d == a.e - b.e
         IN  IF d > 26
             THEN a
             ELSE LET sticky == (b.m * 8) % 2^d # 0
                  IN  f32_round(a.m * 8 - (b.m * 8) \div 2^d
                                    - (IF sticky THEN 1 ELSE 0),
                                a.e - 3, sticky)

\* The quotient of the significands to 26 binary places, by long division
\* in steps of 7, 7, 7 and 5 digits.
f32_div(a, b) ==
    IF a.m = 0
    THEN f32_zero
    ELSE LET q0 == a.m \div b.m
             r0 == a.m % b.m
             q1 == q0 * 128 + (r0 * 128) \div b.m
             r1 == (r0 * 128) % b.m
             q2 == q1 * 128 + (r1 * 128) \div b.m
             r2 == (r1 * 128) % b.m
             q3 == q2 * 128 + (r2 * 128) \div b.m
             r3 == (r2 * 128) % b.m
             q4 == q3 * 32 + (r3 * 32) \div b.m
             r4 == (r3 * 32) % b.m
         IN  f32_round(q4, a.e - b.e - 26, r4 # 0)

\* The conversion to an integer type: the fraction is dropped.
f32_trunc(a) ==
    IF a.m = 0 THEN 0
    ELSE IF a.e >= 0 THEN a.m * 2^(a.e)
    ELSE IF a.e < -30 THEN 0
    ELSE a.m \div 2^(-a.e)

\* The float of the Python value num / den (a quotient of small integers).
f32_ratio(num, den) == f32_div(f32_from_int(num), f32_from_int(den))

f32_one == f32_from_int(1)

\* np.clip(x, 0.0, 1.0) for x >= 0
f32_clip1(x) == IF f32_less(f32_one, x) THEN f32_one ELSE x

\* np.clip((a - b) / den, 0, 1)
f32_clip_ramp(a, b, den) ==
    IF f32_less(a, b)
    THEN f32_zero
    ELSE f32_clip1(f32_div(f32_sub(a, b), den))

-----------------------------------------------------------------------------
(* calculate_target_size (utils/image_processing.py), the computation the  *)
(* drivers repeat inline before resize (SpecTargetSize).  The aspect ratio *)
(* original_ratio is the quotient width / height of two integers.          *)

RECURSIVE isqrt_between(_, _, _)
\* The largest k in lo..hi with k * k <= n, by bisection.
isqrt_between(n, lo, hi) ==
    IF lo = hi
    THEN lo
    ELSE LET mid == (lo + hi + 1) \div 2
         IN  IF mid * mid <= n
             THEN isqrt_between(n, mid, hi)
             ELSE isqrt_between(n, lo, mid - 1)

\* floor(sqrt(n)) for 0 <= n < 2^31
isqrt(n) == isqrt_between(n, 0, 46340)

\* width / height is a binary fraction, so the float holds it exactly
ExactRatio(original_ratio) ==
    \E k \in 0..10 : (original_ratio[1] * 2^k) % original_ratio[2] = 0

\* int((total_pixels * original_ratio) ** 0.5).  The product and the power
\* are rounded floats: when the exact product is a perfect square k * k and
\* the ratio is not held exactly, the rounded product may fall below k * k,
\* and the result is k or k - 1.
target_width_outcomes(total_pixels, original_ratio) ==
    LET num == total_pixels * original_ratio[1]
        x == num \div original_ratio[2]
        k == isqrt(x)
    IN  IF num % original_ratio[2] = 0 /\ k * k = x /\ k > 0
           /\ ~ExactRatio(original_ratio)
        THEN {k - 1, k}
        ELSE {k}

\* A variant that takes the square root of total_pixels alone.
calculate_target_size_ignores_ratio(total_pixels, original_ratio) ==
    { IF target_width = 0
      THEN [raised |-> TRUE, error |-> "ZeroDivisionError"]
      ELSE [raised |-> FALSE,
            size |-> <<target_width, total_pixels \div target_width>>] :
      target_width \in {isqrt(total_pixels)} }

\* The values calculate_target_size can return, or the error it raises.
calculate_target_size(total_pixels, original_ratio) ==
    { IF target_width = 0
      THEN [raised |-> TRUE, error |-> "ZeroDivisionError"]
      ELSE [raised |-> FALSE,
            size |-> <<target_width, total_pixels \div target_width>>] :
      target_width \in target_width_outcomes(total_pixels, original_ratio) }

PixelBudgets == {1, 3600, 40000, 2560 * 1440}

ImageSides == {1, 2, 3, 4, 9, 16, 100}

InitTargetSize ==
    /\ ts_pc = "ready"
    /\ ts_pixels \in PixelBudgets
    /\ ts_width \in ImageSides
    /\ ts_height \in ImageSides
    /\ ts_result = <<>>
    /\ image = <<>>
    /\ SessionIdle
    /\ PresetIdle
    /\ FormatIdle
    /\ LoaderIdle
    /\ BatchIdle
    /\ ToolsIdle

TS_Calculate ==
    /\ ts_pc = "ready"
    /\ ts_result' \in calculate_target_size(ts_pixels, <<ts_width, ts_height>>)
    /\ ts_pc' = "done"
    /\ UNCHANGED <<ts_pixels, ts_width, ts_height, sessionVars, presetVars,
                   formatVars, loaderVars, batchVars, toolVars>>

NextTargetSize == TS_Calculate

SpecTargetSize == InitTargetSize /\ [][NextTargetSize]_vars

-----------------------------------------------------------------------------
(* Pixel buffers.  A decoded RGB buffer is a sequence of runs: px is the   *)
(* 8-bit <<r, g, b>> of the pixels of the run and n their number.  A       *)
(* buffer term whose first element is <<"raster", buf>> can be rendered:   *)
(* Render computes the buffer its transforms produce (SpecRaster).         *)

MaxRuns == 2

Raster(buf) == << <<"raster", buf>> >>

RECURSIVE SeqSum(_)
SeqSum(q) == IF q = <<>> THEN 0 ELSE q[1] + SeqSum(Tail(q))

Max3(px) ==
    LET rg == IF px[1] >= px[2] THEN px[1] ELSE px[2]
    IN  IF rg >= px[3] THEN rg ELSE px[3]

\* The V channel of PIL's convert('HSV'): the largest of the three channels.
hsv_value(px) == Max3(px)

achromatic(px) == px[1] = px[2] /\ px[2] = px[3]

\* PIL's Image.blend(im1, im2, alpha) on one channel: im1 or im2 copied for
\* alpha 0 or 1, in1 + alpha * (in2 - in1) in C floats otherwise, clipped
\* to 0..255 when alpha is outside 0..1, then converted to 8 bits.
blend_channel(in1, in2, alpha) ==
    IF alpha.m = 0 THEN in1
    ELSE IF alpha = f32_one THEN in2
    ELSE LET base == f32_from_int(in1)
         IN  IF in2 >= in1
             THEN LET temp == f32_add(base, f32_mul(alpha, f32_from_int(in2 - in1)))
                  IN  IF f32_less(f32_one, alpha) /\ ~f32_less(temp, f32_from_int(255))
                      THEN 255
                      ELSE f32_trunc(temp)
             ELSE LET delta == f32_mul(alpha, f32_from_int(in1 - in2))
                  IN  IF f32_less(base, delta)
                      THEN 0
                      ELSE f32_trunc(f32_sub(base, delta))

\* ImageEnhance.Brightness(image).enhance(factor): the blend of a black
\* image and the image.
Brightness_enhance(px, factor) ==
    [c \in 1..3 |-> blend_channel(0, px[c], factor)]

\* The C float of 2 ** exposure_value.
exposure_factor(exposure_value) ==
    CASE exposure_value = -200 -> [m |-> 8388608,  e |-> -25]
      [] exposure_value = -100 -> [m |-> 8388608,  e |-> -24]
      [] exposure_value = -50  -> [m |-> 11863283, e |-> -24]
      [] exposure_value = -10  -> [m |-> 15653696, e |-> -24]
      [] exposure_value = -5   -> [m |-> 16205722, e |-> -24]
      [] exposure_value = 0    -> [m |-> 8388608,  e |-> -23]
      [] exposure_value = 5    -> [m |-> 8684432,  e |-> -23]
      [] exposure_value = 10   -> [m |-> 8990687,  e |-> -23]
      [] exposure_value = 50   -> [m |-> 11863283, e |-> -23]
      [] exposure_value = 100  -> [m |-> 8388608,  e |-> -22]
      [] exposure_value = 200  -> [m |-> 8388608,  e |-> -21]

\* One masked adjustment of a channel, lines 82-83 and 86-87:
\* x * (1 - mask) + (x * factor) * mask
masked_adjust(x, factor, mask) ==
    f32_add(f32_mul(x, f32_sub(f32_one, mask)),
            f32_mul(f32_mul(x, factor), mask))

\* A variant whose adjustment factor lacks the leading 1.0 +.
highlights_shadows_pixel_factor_without_one(px, highlights, shadows) ==
    LET img_array == [c \in 1..3 |-> f32_div(f32_from_int(px[c]), f32_from_int(255))]
        luminance == f32_add(f32_add(f32_mul(f32_ratio(299, 1000), img_array[1]),
                                     f32_mul(f32_ratio(587, 1000), img_array[2])),
                             f32_mul(f32_ratio(114, 1000), img_array[3]))
        highlight_mask == f32_clip_ramp(luminance, f32_ratio(7, 10), f32_ratio(3, 10))
        shadow_mask == f32_clip_ramp(f32_ratio(3, 10), luminance, f32_ratio(3, 10))
        highlight_factor == f32_ratio(IF highlights > 0 THEN highlights ELSE 0, 100)
        shadow_factor == f32_ratio(IF shadows > 0 THEN shadows ELSE 0, 100)
        after_highlights == [c \in 1..3 |->
            masked_adjust(img_array[c], highlight_factor, highlight_mask)]
        after_shadows == [c \in 1..3 |->
            masked_adjust(after_highlights[c], shadow_factor, shadow_mask)]
    IN  [c \in 1..3 |->
            f32_trunc(f32_mul(f32_clip1(after_shadows[c]), f32_from_int(255)))]

\* highlights_shadows on one pixel, lines 61-90: the float32 array of the
\* channels over 255, the luminance, the two masks, the two adjustments of
\* every channel, the clip and the conversion back to 8 bits.
highlights_shadows_pixel(px, highlights, shadows) ==
    LET img_array == [c \in 1..3 |-> f32_div(f32_from_int(px[c]), f32_from_int(255))]
        luminance == f32_add(f32_add(f32_mul(f32_ratio(299, 1000), img_array[1]),
                                     f32_mul(f32_ratio(587, 1000), img_array[2])),
                             f32_mul(f32_ratio(114, 1000), img_array[3]))
        highlight_mask == f32_clip_ramp(luminance, f32_ratio(7, 10), f32_ratio(3, 10))
        shadow_mask == f32_clip_ramp(f32_ratio(3, 10), luminance, f32_ratio(3, 10))
        highlight_factor == f32_ratio(100 + highlights, 100)
        shadow_factor == f32_ratio(100 + shadows, 100)
        after_highlights == [c \in 1..3 |->
            masked_adjust(img_array[c], highlight_factor, highlight_mask)]
        after_shadows == [c \in 1..3 |->
            masked_adjust(after_highlights[c], shadow_factor, shadow_mask)]
    IN  [c \in 1..3 |->
            f32_trunc(f32_mul(f32_clip1(after_shadows[c]), f32_from_int(255)))]

\* A variant whose target mask leaves out the values up to 180.
midtone_pixel_above_180(px, factor100) ==
    LET brightness == hsv_value(px)
        protected == IF 180 < brightness /\ brightness < 200
                     THEN f32_trunc(f32_mul(f32_from_int(brightness),
                                            f32_ratio(factor100, 100)))
                     ELSE brightness
    IN  [c \in 1..3 |-> blend_channel(px[c], protected, f32_ratio(1, 2))]

\* The applied branch of apply_midtone_protection on one achromatic pixel,
\* lines 269-288: V times 0.94 inside the target mask 160 < V < 200,
\* converted to 8 bits, and the blend of the working pixel with the
\* protected one at 0.5.  For an achromatic pixel the HSV conversions keep
\* r = g = b = V.
midtone_pixel(px, factor100) ==
    LET brightness == hsv_value(px)
        protected == IF 160 < brightness /\ brightness < 200
                     THEN f32_trunc(f32_mul(f32_from_int(brightness),
                                            f32_ratio(factor100, 100)))
                     ELSE brightness
    IN  [c \in 1..3 |-> blend_channel(px[c], protected, f32_ratio(1, 2))]

\* np.clip(x, 0.0, 1.0), times 255, converted to 8 bits (lines 201-202)
to_uint8(x) == f32_trunc(f32_mul(f32_clip1(x), f32_from_int(255)))

\* A variant in which a negative tint scales green by 1.0 + tint_factor * 0.1.
color_temperature_pixel_green_down(px, temperature, tint) ==
    LET img_array == [c \in 1..3 |-> f32_div(f32_from_int(px[c]), f32_from_int(255))]
        temp_factors ==
            IF temperature > 0
            THEN <<f32_ratio(1000 + temperature, 1000),
                   f32_ratio(2000 + temperature, 2000),
                   f32_ratio(1000 - temperature, 1000)>>
            ELSE <<f32_ratio(1000 + temperature, 1000), f32_one,
                   f32_ratio(1000 - temperature, 1000)>>
        tint_factors ==
            IF tint > 0
            THEN <<f32_ratio(2000 + tint, 2000), f32_ratio(1000 - tint, 1000),
                   f32_ratio(2000 + tint, 2000)>>
            ELSE <<f32_one, f32_ratio(1000 + tint, 1000), f32_one>>
        after_temperature == [c \in 1..3 |->
            IF temperature # 0 /\ temp_factors[c] # f32_one
            THEN f32_mul(img_array[c], temp_factors[c]) ELSE img_array[c]]
        after_tint == [c \in 1..3 |->
            IF tint # 0 /\ tint_factors[c] # f32_one
            THEN f32_mul(after_temperature[c], tint_factors[c])
            ELSE after_temperature[c]]
    IN  <<to_uint8(after_tint[1]), to_uint8(after_tint[2]), to_uint8(after_tint[3])>>

\* color_temperature on one pixel, lines 178-202: the float32 array of the
\* channels over 255, the in-place products by the temperature factors
\* (red 1 + t/1000, green 1 + t/2000 when warmer, blue 1 - t/1000) and by
\* the tint factors (red and blue 1 + tint/2000 and green 1 - tint/1000
\* when tint > 0, green 1 - tint/1000 alone when tint < 0), the clip and the
\* conversion back to 8 bits.
color_temperature_pixel(px, temperature, tint) ==
    LET img_array == [c \in 1..3 |-> f32_div(f32_from_int(px[c]), f32_from_int(255))]
        temp_factors ==
            IF temperature > 0
            THEN <<f32_ratio(1000 + temperature, 1000),
                   f32_ratio(2000 + temperature, 2000),
                   f32_ratio(1000 - temperature, 1000)>>
            ELSE <<f32_ratio(1000 + temperature, 1000), f32_one,
                   f32_ratio(1000 - temperature, 1000)>>
        tint_factors ==
            IF tint > 0
            THEN <<f32_ratio(2000 + tint, 2000), f32_ratio(1000 - tint, 1000),
                   f32_ratio(2000 + tint, 2000)>>
            ELSE <<f32_one, f32_ratio(1000 - tint, 1000), f32_one>>
        after_temperature == [c \in 1..3 |->
            IF temperature # 0 /\ temp_factors[c] # f32_one
            THEN f32_mul(img_array[c], temp_factors[c]) ELSE img_array[c]]
        after_tint == [c \in 1..3 |->
            IF tint # 0 /\ tint_factors[c] # f32_one
            THEN f32_mul(after_temperature[c], tint_factors[c])
            ELSE after_temperature[c]]
    IN  <<to_uint8(after_tint[1]), to_uint8(after_tint[2]), to_uint8(after_tint[3])>>

transform_pixel(t, px) ==
    CASE t[1] = "exposure" -> Brightness_enhance(px, exposure_factor(t[2]))
      [] t[1] = "brightness" -> Brightness_enhance(px, f32_ratio(t[2], 100))
      [] t[1] = "highlights_shadows" -> highlights_shadows_pixel(px, t[2], t[3])
      [] t[1] = "midtone" -> midtone_pixel(px, t[2])
      [] t[1] = "temperature" -> color_temperature_pixel(px, t[2], t[3])

\* One transform applied to every pixel of a buffer.
apply_transform(t, buf) ==
    IF buf = <<>>
    THEN <<>>
    ELSE [i \in DOMAIN buf |-> [px |-> transform_pixel(t, buf[i].px), n |-> buf[i].n]]

RECURSIVE Render(_)
\* The pixels of a buffer term over a raster.
Render(img) ==
    IF Len(img) = 1
    THEN img[1][2]
    ELSE apply_transform(img[Len(img)], Render(SubSeq(img, 1, Len(img) - 1)))

PixelCount(buf) == SeqSum([i \in DOMAIN buf |-> buf[i].n])

\* np.sum(bright_midtone_mask), the mask being 140 < V < 200
BrightMidtoneCount(buf) ==
    SeqSum([i \in DOMAIN buf |->
               IF 140 < hsv_value(buf[i].px) /\ hsv_value(buf[i].px) < 200
               THEN buf[i].n ELSE 0])

ValueSum(buf) == SeqSum([i \in DOMAIN buf |-> buf[i].n * hsv_value(buf[i].px)])

Ceiling(num, den) == (num + den - 1) \div den

\* The statistics apply_midtone_protection computes, lines 243-266; pct and
\* mean are rounded up, so that pct > 15 and mean > 120 are the comparisons
\* bright_pixel_percentage > 0.15 and mean_brightness > 120.
BufferStats(buf) ==
    [pct |-> Ceiling(100 * BrightMidtoneCount(buf), PixelCount(buf)),
     mean |-> Ceiling(ValueSum(buf), PixelCount(buf)),
     target |-> \E i \in DOMAIN buf :
                    160 < hsv_value(buf[i].px) /\ hsv_value(buf[i].px) < 200]

Achromatic(buf) == \A i \in DOMAIN buf : achromatic(buf[i].px)

RasterPixels ==
    { <<v, v, v>> : v \in {0, 7, 150, 180, 255} } \cup { <<127, 250, 142>> }

RunLengths == {2, 3, 17}

PixelRank(px) == px[1] * 65536 + px[2] * 256 + px[3]

\* The buffers of at most MaxRuns runs, the runs in increasing order of their
\* pixel: the transforms act on each pixel alone and the statistics on the
\* pixels whatever their place.
RasterBuffers ==
    UNION { { buf \in [1..k -> [px : RasterPixels, n : RunLengths]] :
                \A i \in 1..(k - 1) :
                    PixelRank(buf[i].px) < PixelRank(buf[i + 1].px) } :
            k \in 1..MaxRuns }

\* exposure values, in hundredths of a stop
RasterExposures == {-100, -10, 0, 5, 100, 200}

RasterBrightness == {-150, -100, -50, 0, 5, 100}

RasterPairs == {<<0, 0>>, <<-20, 20>>}

\* <<temperature, tint>>
RasterTemperatures ==
    {<<0, 0>>, <<0, -100>>, <<0, -50>>, <<0, 50>>, <<0, 100>>, <<10, 0>>, <<-10, 50>>}

\* A preset and a custom preset whose every parameter has its neutral value.
NeutralPreset ==
    [exposure |-> 0, highlights |-> 0, shadows |-> 0, vibrance |-> 0,
     saturation |-> 0, clarity |-> 0, structure |-> 0, temperature |-> 0,
     tint |-> 0, skin_smoothing |-> 0]

NeutralCustomPreset ==
    [brightness |-> 0, highlights |-> 0, shadows |-> 0, vibrance |-> 0,
     saturation |-> 0, clarity |-> 0, structure |-> 0, temperature |-> 0,
     skin_smoothing |-> 0]

InitRaster ==
    /\ image \in { Raster(buf) : buf \in RasterBuffers }
    /\ enh = PhotoshopStyleEnhancer(image)
    /\ steps = 0
    /\ lastCall = "none"
    /\ prev = enh
    /\ PresetIdle
    /\ FormatIdle
    /\ LoaderIdle
    /\ BatchIdle
    /\ SizeIdle
    /\ ToolsIdle

\* One call on the fresh session of the buffer.
RasterStep(name, e) ==
    /\ lastCall = "none"
    /\ enh' = e
    /\ prev' = enh
    /\ lastCall' = name
    /\ steps' = steps + 1
    /\ UNCHANGED <<image, presetVars, formatVars, loaderVars, batchVars, sizeVars, toolVars>>

R_Exposure ==
    \E v \in RasterExposures :
        RasterStep("exposure_adjustment", exposure_adjustment(enh, v))

R_Brightness ==
    \E v \in RasterBrightness :
        RasterStep("brightness_adjustment", brightness_adjustment(enh, v))

R_HighlightsShadows ==
    \E p \in RasterPairs :
        RasterStep("highlights_shadows", highlights_shadows(enh, p[1], p[2]))

R_ColorTemperature ==
    \E p \in RasterTemperatures :
        RasterStep("color_temperature", color_temperature(enh, p[1], p[2]))

R_MidtoneProtection ==
    /\ Achromatic(Render(enh.working))
    /\ RasterStep("apply_midtone_protection",
                  apply_midtone_protection(enh, BufferStats(Render(enh.working))))

R_NeutralPreset ==
    RasterStep("preset_stages",
               preset_stages(image, NeutralPreset,
                             BufferStats(Render(image))).session)

R_NeutralCustomPreset ==
    RasterStep("custom_stages", custom_stages(image, NeutralCustomPreset))

NextRaster ==
    \/ R_Exposure
    \/ R_Brightness
    \/ R_HighlightsShadows
    \/ R_ColorTemperature
    \/ R_MidtoneProtection
    \/ R_NeutralPreset
    \/ R_NeutralCustomPreset

SpecRaster == InitRaster /\ [][NextRaster]_vars

-----------------------------------------------------------------------------
(* The alpha add_watermark gives one pixel of the logo before it is pasted *)
(* (utils/image_processing.py:135-156, SpecWatermark).  Opacities are in   *)
(* hundredths.                                                              *)

\* int(a * watermark_opacity * 1.2) as double arithmetic computes it: the
\* exact product truncated, except that for a = 175 at opacity 0.70 the
\* rounded product is 146.99999999999997.
scaled_alpha(a, opacity100) ==
    IF a = 175 /\ opacity100 = 70
    THEN 146
    ELSE (a * opacity100 * 12) \div 1000

\* Lines 136-153 for a pixel (r, g, b, a) of the RGBA logo.
logo_pixel_alpha(a, opacity100) ==
    IF opacity100 < 100
    THEN IF a > 0
         THEN (IF scaled_alpha(a, opacity100) < 255
               THEN scaled_alpha(a, opacity100) ELSE 255)
         ELSE a
    ELSE a

WatermarkOpacities == {0, 1, 50, 70, 90, 99, 100}

WatermarkAlphas == 0..255

InitWatermark ==
    /\ wm_pc = "ready"
    /\ wm_opacity \in WatermarkOpacities
    /\ wm_alpha \in WatermarkAlphas
    /\ wm_applied = 0
    /\ image = <<>>
    /\ SessionIdle
    /\ PresetIdle
    /\ FormatIdle
    /\ LoaderIdle
    /\ BatchIdle
    /\ SizeIdle
    /\ CopyIdle

WM_ScaleAlpha ==
    /\ wm_pc = "ready"
    /\ wm_applied' = logo_pixel_alpha(wm_alpha, wm_opacity)
    /\ wm_pc' = "done"
    /\ UNCHANGED <<wm_opacity, wm_alpha, copyVars, sessionVars, presetVars,
                   formatVars, loaderVars, batchVars, sizeVars>>

NextWatermark == WM_ScaleAlpha

SpecWatermark == InitWatermark /\ [][NextWatermark]_vars

-----------------------------------------------------------------------------
(* The copy utility utils/others/copy_or_cut_files.py: main, copy_files and *)
(* the copy_single_file calls its thread pool runs, one action per          *)
(* statement that other threads can observe (SpecCopy).  A file is known    *)
(* by its index in the listing; the destination path of a file is absent,   *)
(* holds a file of the listed size, or holds a file of another size.        *)

MaxCopyFiles == 2

\* str.upper()
upper(s) ==
    [i \in DOMAIN s |->
        IF \E u \in DOMAIN UpperToLower : UpperToLower[u] = s[i]
        THEN CHOOSE u \in DOMAIN UpperToLower : UpperToLower[u] = s[i]
        ELSE s[i]]

\* str.strip() of blanks
strip(s) ==
    LET inked == { i \in DOMAIN s : s[i] # " " }
    IN  IF inked = {}
        THEN <<>>
        ELSE SubSeq(s, CHOOSE i \in inked : \A j \in inked : i <= j,
                       CHOOSE i \in inked : \A j \in inked : j <= i)

ChoiceInputs == { <<"1">>, <<"2">>, <<" ", "2">>, <<"3">> }

ConfirmInputs ==
    { <<"Y", "E", "S">>, <<"y", "e", "s">>, <<" ", "Y", "e", "s", " ">>,
      <<"Y">>, <<"n", "o">>, <<>> }

DestStates == {"absent", "same_size", "other_size"}

\* max_workers = min(4, len(files))
max_workers(files) == IF Cardinality(files) < 4 THEN Cardinality(files) ELSE 4

Running == { f \in listed : task[f] \notin {"queued", "done"} }

InitCopy ==
    /\ c_pc = "start"
    /\ source_exists \in BOOLEAN
    /\ choice = <<>>
    /\ confirm = <<>>
    /\ delete_after_copy = FALSE
    /\ listed \in { 1..n : n \in 0..MaxCopyFiles }
    /\ dest \in [listed -> DestStates]
    /\ dest_before = dest
    /\ task = [f \in listed |-> "queued"]
    /\ local = [f \in listed |-> 0]
    /\ progress_lock = 0
    /\ copied_count = 0
    /\ skipped_count = 0
    /\ wresult = [f \in listed |-> "none"]
    /\ collected = {}
    /\ successful_copies = 0
    /\ copy_successful = "none"
    /\ deleted = FALSE
    /\ image = <<>>
    /\ SessionIdle
    /\ PresetIdle
    /\ FormatIdle
    /\ LoaderIdle
    /\ BatchIdle
    /\ SizeIdle
    /\ WatermarkIdle

NotCopy == <<sessionVars, presetVars, formatVars, loaderVars, batchVars,
             sizeVars, wmVars>>

poolVars == <<dest, task, local, progress_lock, copied_count, skipped_count,
              wresult>>

\* Lines 252-255.
C_CheckSource ==
    /\ c_pc = "start"
    /\ c_pc' = IF source_exists THEN "choose" ELSE "done"
    /\ UNCHANGED <<source_exists, choice, confirm, delete_after_copy, listed,
                   dest_before, poolVars, collected, successful_copies,
                   copy_successful, deleted, NotCopy>>

\* Lines 265-290: one round of the while loop up to the answer.
C_Choice ==
    /\ c_pc = "choose"
    /\ \E interrupted \in BOOLEAN, typed \in ChoiceInputs :
         IF interrupted
         THEN c_pc' = "done" /\ UNCHANGED choice
         ELSE /\ choice' = typed
              /\ c_pc' = IF strip(typed) = <<"1">> THEN "copy"
                         ELSE IF strip(typed) = <<"2">> THEN "confirm"
                         ELSE "choose"
    /\ UNCHANGED <<source_exists, confirm, delete_after_copy, listed,
                   dest_before, poolVars, collected, successful_copies,
                   copy_successful, deleted, NotCopy>>

\* Lines 277-285, and 288-290 when the prompt is interrupted.
C_Confirm ==
    /\ c_pc = "confirm"
    /\ \E interrupted \in BOOLEAN, typed \in ConfirmInputs :
         IF interrupted
         THEN c_pc' = "done" /\ UNCHANGED <<confirm, delete_after_copy>>
         ELSE /\ confirm' = typed
              /\ delete_after_copy' = (upper(strip(typed)) = <<"Y", "E", "S">>)
              /\ c_pc' = "copy"
    /\ UNCHANGED <<source_exists, choice, listed, dest_before, poolVars,
                   collected, successful_copies, copy_successful, deleted,
                   NotCopy>>

\* Lines 163-203: the listing (empty when the scan raises) and the
\* submission of one task per file.
C_ListFiles ==
    /\ c_pc = "copy"
    /\ \E scanned \in BOOLEAN :
         LET files == IF scanned THEN listed ELSE {}
         IN  /\ listed' = files
             /\ IF files = {}
                THEN /\ copy_successful' = "False"
                     /\ c_pc' = "decide"
                ELSE /\ c_pc' = "pool"
                     /\ UNCHANGED copy_successful
    /\ UNCHANGED <<source_exists, choice, confirm, delete_after_copy,
                   dest_before, poolVars, collected, successful_copies,
                   deleted, NotCopy>>

mainVars == <<c_pc, source_exists, choice, confirm, delete_after_copy, listed,
              dest_before, collected, successful_copies, copy_successful,
              deleted>>

\* Lines 61-81: the task of file f starts on a free worker and looks at its
\* destination.
W_Begin(f) ==
    /\ c_pc = "pool"
    /\ task[f] = "queued"
    /\ Cardinality(Running) < max_workers(listed)
    /\ \E raised \in BOOLEAN :
         task' = [task EXCEPT ![f] =
                    IF raised THEN "failed_notice"
                    ELSE IF dest[f] = "same_size" THEN "skip"
                    ELSE IF dest[f] = "other_size" THEN "recopy_notice"
                    ELSE "copy"]
    /\ UNCHANGED <<dest, local, progress_lock, copied_count, skipped_count,
                   wresult, mainVars, NotCopy>>

\* A variant of the counters without the lock.
lock_acquirable_always(f) == TRUE

\* with progress_lock: the lock is taken when no task holds it
lock_acquirable(f) == progress_lock = 0

\* Lines 80-81: the notice of a size mismatch, printed under the lock.
W_RecopyNotice(f) ==
    /\ task[f] = "recopy_notice"
    /\ lock_acquirable(f)
    /\ task' = [task EXCEPT ![f] = "copy"]
    /\ UNCHANGED <<dest, local, progress_lock, copied_count, skipped_count,
                   wresult, mainVars, NotCopy>>

\* Line 84: shutil.copy2 writes the whole file, part of it, or raises.
W_Copy(f) ==
    /\ task[f] = "copy"
    /\ \E outcome \in {"whole", "part", "raised", "raised_part"} :
         /\ dest' = [dest EXCEPT ![f] =
                       CASE outcome = "whole" -> "same_size"
                         [] outcome = "part" -> "other_size"
                         [] outcome = "raised" -> @
                         [] outcome = "raised_part" -> "other_size"]
         /\ task' = [task EXCEPT ![f] =
                       IF outcome \in {"whole", "part"}
                       THEN "verify" ELSE "failed_notice"]
    /\ UNCHANGED <<local, progress_lock, copied_count, skipped_count,
                   wresult, mainVars, NotCopy>>

\* Lines 86-96: the size check of the copy.
W_Verify(f) ==
    /\ task[f] = "verify"
    /\ task' = [task EXCEPT ![f] =
                  IF dest[f] = "same_size" THEN "count_copied" ELSE "failed_notice"]
    /\ UNCHANGED <<dest, local, progress_lock, copied_count, skipped_count,
                   wresult, mainVars, NotCopy>>

\* Lines 72 and 88: with progress_lock.
W_Acquire(f) ==
    /\ task[f] \in {"skip", "count_copied"}
    /\ lock_acquirable(f)
    /\ progress_lock' = f
    /\ task' = [task EXCEPT ![f] =
                  IF task[f] = "skip" THEN "read_skipped" ELSE "read_copied"]
    /\ UNCHANGED <<dest, local, copied_count, skipped_count, wresult,
                   mainVars, NotCopy>>

\* Lines 73 and 89, first half of += 1: the counter is read.
W_Read(f) ==
    /\ task[f] \in {"read_skipped", "read_copied"}
    /\ local' = [local EXCEPT ![f] =
                   IF task[f] = "read_skipped" THEN skipped_count ELSE copied_count]
    /\ task' = [task EXCEPT ![f] =
                  IF task[f] = "read_skipped" THEN "write_skipped" ELSE "write_copied"]
    /\ UNCHANGED <<dest, progress_lock, copied_count, skipped_count, wresult,
                   mainVars, NotCopy>>

\* Lines 73-78 and 89-94: the counter is stored, the lock released and the
\* status returned.
W_Write(f) ==
    /\ task[f] \in {"write_skipped", "write_copied"}
    /\ IF task[f] = "write_skipped"
       THEN /\ skipped_count' = local[f] + 1
            /\ wresult' = [wresult EXCEPT ![f] = "skipped"]
            /\ UNCHANGED copied_count
       ELSE /\ copied_count' = local[f] + 1
            /\ wresult' = [wresult EXCEPT ![f] = "copied"]
            /\ UNCHANGED skipped_count
    /\ progress_lock' = 0
    /\ task' = [task EXCEPT ![f] = "done"]
    /\ UNCHANGED <<dest, local, mainVars, NotCopy>>

\* Lines 98-101: the except clause.
W_Failed(f) ==
    /\ task[f] = "failed_notice"
    /\ lock_acquirable(f)
    /\ wresult' = [wresult EXCEPT ![f] = "failed"]
    /\ task' = [task EXCEPT ![f] = "done"]
    /\ UNCHANGED <<dest, local, progress_lock, copied_count, skipped_count,
                   mainVars, NotCopy>>

\* Lines 206-210: as_completed yields a finished future.
C_Collect(f) ==
    /\ c_pc = "pool"
    /\ task[f] = "done"
    /\ f \notin collected
    /\ collected' = collected \cup {f}
    /\ successful_copies' =
          IF wresult[f] \in {"copied", "skipped"}
          THEN successful_copies + 1 ELSE successful_copies
    /\ UNCHANGED <<c_pc, source_exists, choice, confirm, delete_after_copy,
                   listed, dest_before, poolVars, copy_successful, deleted,
                   NotCopy>>

\* Lines 212-233: the pool is left and the status returned.
C_Return ==
    /\ c_pc = "pool"
    /\ collected = listed
    /\ copy_successful' =
          IF successful_copies = Cardinality(listed) THEN "True" ELSE "False"
    /\ c_pc' = "decide"
    /\ UNCHANGED <<source_exists, choice, confirm, delete_after_copy, listed,
                   dest_before, poolVars, collected, successful_copies,
                   deleted, NotCopy>>

\* Lines 305-320.
C_Decide ==
    /\ c_pc = "decide"
    /\ deleted' = (copy_successful = "True" /\ delete_after_copy)
    /\ c_pc' = "done"
    /\ UNCHANGED <<source_exists, choice, confirm, delete_after_copy, listed,
                   dest_before, poolVars, collected, successful_copies,
                   copy_successful, NotCopy>>

NextCopy ==
    \/ C_CheckSource
    \/ C_Choice
    \/ C_Confirm
    \/ C_ListFiles
    \/ \E f \in listed : W_Begin(f)
    \/ \E f \in listed : W_RecopyNotice(f)
    \/ \E f \in listed : W_Copy(f)
    \/ \E f \in listed : W_Verify(f)
    \/ \E f \in listed : W_Acquire(f)
    \/ \E f \in listed : W_Read(f)
    \/ \E f \in listed : W_Write(f)
    \/ \E f \in listed : W_Failed(f)
    \/ \E f \in listed : C_Collect(f)
    \/ C_Return
    \/ C_Decide

SpecCopy == InitCopy /\ [][NextCopy]_vars

-----------------------------------------------------------------------------
(* Properties of the stage sequences and of the session *)

StageRank(op) ==
    CASE op = "exposure_adjustment"      -> 1
      [] op = "brightness_adjustment"    -> 1
      [] op = "highlights_shadows"       -> 2
      [] op = "vibrance_saturation"      -> 3
      [] op = "clarity_structure"        -> 4
      [] op = "color_temperature"        -> 5
      [] op = "portrait_enhancements"    -> 6
      [] op = "apply_midtone_protection" -> 7

HistoryKind(op) ==
    CASE op = "exposure_adjustment"      -> "Exposure"
      [] op = "brightness_adjustment"    -> "Brightness"
      [] op = "highlights_shadows"       -> "Highlights"
      [] op = "vibrance_saturation"      -> "Vibrance"
      [] op = "clarity_structure"        -> "Clarity"
      [] op = "color_temperature"        -> "Temperature"
      [] op = "portrait_enhancements"    -> "Portrait"
      [] op = "apply_midtone_protection" -> "Midtone Protection"

RanksRun == { StageRank(enh.trace[i].op) : i \in DOMAIN enh.trace }

\* C1: within one image the stages run in the fixed order exposure-or-
\* brightness, highlights/shadows, vibrance/saturation, clarity/structure,
\* temperature/tint, portrait, optional midtone protection: in both the
\* preset and the custom path no stage is invoked twice or after a later
\* one, every stage reads the buffer the stage before it left (the first
\* one the decoded image), and a finished sequence has run every stage.
C1_FixedStageOrder ==
    LET t == enh.trace
    IN  /\ \A i, j \in DOMAIN t :
              i < j => StageRank(t[i].op) < StageRank(t[j].op)
        /\ \A i \in DOMAIN t :
              t[i].inb = (IF i = 1 THEN image ELSE t[i-1].outb)
        /\ t # <<>> => enh.working = t[Len(t)].outb
        /\ (ppc = "done" /\ pkind = "preset") =>
              RanksRun = 1..6 \cup
                 (IF Get(PHOTOSHOP_PRESETS[pname], "midtone_protection", FALSE)
                  THEN {7} ELSE {})
        /\ (ppc = "done" /\ pkind = "custom") =>
              RanksRun = 2..6 \cup
                 (IF pcustom.exposure # 0 \/ pcustom.brightness # 0
                  THEN {1} ELSE {})

C1_Witness ==
    /\ ppc = "done"
    /\ pkind = "preset"
    /\ Len(enh.trace) = 7
    /\ enh.trace[7].op = "apply_midtone_protection"
    /\ enh.trace[7].inb # image

\* C2: every adjustment call on a session appends exactly one history
\* entry: since the last reset the history is as long as the list of calls
\* made, and its entries are in call order.
C2_OneEntryPerCall ==
    /\ Len(enh.history) = Len(enh.trace)
    /\ \A i \in DOMAIN enh.trace :
          enh.history[i][1] = HistoryKind(enh.trace[i].op)

\* C3: the original buffer of a session always equals the image given to
\* the constructor, whatever calls and resets were made, and right after
\* reset() the working buffer equals the original and the history is empty.
C3_OriginalNeverChanged ==
    /\ enh.original = image
    /\ lastCall = "reset" =>
          /\ enh.working = image
          /\ enh.history = <<>>

C3_Witness ==
    /\ lastCall = "reset"
    /\ prev.working # prev.original
    /\ prev.history # <<>>
    /\ enh.working = image

\* C4: for every preset of the catalog, apply_photoshop_preset returns a
\* history whose first entry is the Exposure entry and whose length is 6
\* when the preset has no midtone_protection flag and 7 when it has.
C4_PresetHistoryLength ==
    (pkind = "preset" /\ ppc = "done") =>
        LET history == presult[2]
        IN  /\ history[1][1] = "Exposure"
            /\ Len(history) =
                 (IF "midtone_protection" \in DOMAIN PHOTOSHOP_PRESETS[pname]
                  THEN 7 ELSE 6)

\* The number of calls of method op made on the session so far.
CallCount(op) ==
    Cardinality({ i \in DOMAIN enh.trace : enh.trace[i].op = op })

\* C12: in custom-preset processing at most one of exposure_adjustment and
\* brightness_adjustment is called per image: exposure_adjustment when
\* exposure is non-zero (whatever brightness is), brightness_adjustment only
\* when exposure is zero and brightness is non-zero, neither when both are 0.
C12_ExposureOrBrightness ==
    (pkind = "custom" /\ ppc \notin {"start", "exposure"}) =>
        /\ CallCount("exposure_adjustment") =
              (IF pcustom.exposure # 0 THEN 1 ELSE 0)
        /\ CallCount("brightness_adjustment") =
              (IF pcustom.exposure = 0 /\ pcustom.brightness # 0 THEN 1 ELSE 0)
        /\ CallCount("exposure_adjustment") + CallCount("brightness_adjustment") <= 1

C12_Witness ==
    /\ pkind = "custom"
    /\ ppc = "done"
    /\ pcustom.exposure # 0
    /\ pcustom.brightness # 0
    /\ CallCount("exposure_adjustment") = 1
    /\ CallCount("brightness_adjustment") = 0
    /\ presult[2][1] = <<"Exposure", pcustom.exposure>>

-----------------------------------------------------------------------------
(* Properties of the batch driver *)

StageNames == {"decode", "adjust", "resize", "watermark", "encode"}

\* The stages one iteration runs, in the order of the statements.
ExpectedStages ==
    IF ENABLE_WATERMARK
    THEN <<"decode", "adjust", "resize", "watermark", "encode">>
    ELSE <<"decode", "adjust", "resize", "encode">>

\* The loads of a complete run: every file once per entry of RESOLUTIONS,
\* in the order of image_files.
FullEnumeration ==
    [k \in 1..(Len(RESOLUTIONS) * Len(image_files)) |->
        << ((k - 1) \div Len(image_files)) + 1,
           ((k - 1) % Len(image_files)) + 1 >>]

HasMessage(kind) == \E i \in DOMAIN console : console[i].kind = kind

\* C5: a run started with a preset name that is not in the catalog raises
\* the lookup error to its caller before any file is decoded or written; the
\* error is not caught per file and the lookup is not retried.
C5_UnknownPresetAborts ==
    (preset_name \notin PresetNames /\ b_pc # "start" /\ image_files # <<>>)
        => /\ attempts = <<>>
           /\ \A l \in DOMAIN outputs : outputs[l] = {}
           /\ ~HasMessage("failed")
           /\ b_pc = "done" => b_outcome = "raised"

\* C6: an exception raised while decoding, adjusting, resizing, watermarking
\* or encoding one image never ends the batch: the loads made so far are
\* always an initial part of the complete enumeration (every file once per
\* pixel budget, in file order), the archive of a budget is written only
\* after every file was attempted for it, and a run that returns has
\* attempted them all.
C6_FailureNeverAbortsBatch ==
    /\ Len(attempts) <= Len(FullEnumeration)
    /\ attempts = SubSeq(FullEnumeration, 1, Len(attempts))
    /\ b_pc = "zip" => Len(attempts) = li * Len(image_files)
    /\ b_pc = "label" => Len(attempts) = (li - 1) * Len(image_files)
    /\ (b_pc = "done" /\ b_outcome = "returned" /\ image_files # <<>>)
          => attempts = FullEnumeration

C6_Witness ==
    /\ b_pc = "done"
    /\ b_outcome = "returned"
    /\ Len(image_files) >= 2
    /\ \E i \in DOMAIN console :
          /\ console[i].kind = "failed"
          /\ console[i].file = basename(image_files[1])
    /\ attempts = FullEnumeration

\* C7: at the end of every batch run the driver reports a count of processed
\* files and a count of failed files, and the two add up to the number of
\* input files.
C7_SummaryReported ==
    (b_pc = "done" /\ b_outcome = "returned" /\ image_files # <<>>)
        => \E i \in DOMAIN console :
              /\ console[i].kind = "summary"
              /\ console[i].processed + console[i].failed = Len(image_files)

C8_StageOrder ==
    /\ Len(alog) <= Len(ExpectedStages)
    /\ \A i \in DOMAIN alog :
          /\ alog[i].stage = ExpectedStages[i]
          /\ i < Len(alog) => alog[i].ok
    /\ b_pc \in {"adjust", "resize", "watermark", "encode"}
          => /\ \A i \in DOMAIN alog : alog[i].ok
             /\ Len(alog) < Len(ExpectedStages)
             /\ b_pc \in {ExpectedStages[Len(alog) + 1]} \cup
                    (IF ~ENABLE_WATERMARK /\ Len(alog) = 3
                     THEN {"watermark"} ELSE {})

C8_Written ==
    (outputs' # outputs)
        => /\ Len(alog') = Len(ExpectedStages)
           /\ \A i \in DOMAIN alog' : alog'[i].ok

\* C8: each image of a preset run moves one way through the stages Decoded,
\* Adjusted, Resized, Watermarked, Encoded: no stage runs before its
\* predecessor completed or runs twice, no stage runs after a failed one, and
\* a JPEG is written only for an image that passed every earlier stage.
C8_OneWayStages == [](C8_StageOrder) /\ [][C8_Written]_vars

C8_Witness ==
    /\ ENABLE_WATERMARK
    /\ li = 1
    /\ outputs[1] # {}
    /\ alog # <<>>
    /\ alog[Len(alog)] = [stage |-> "watermark", ok |-> FALSE]

\* C20: when the watermark logo is missing or unreadable, add_watermark
\* raises nothing and returns an image identical to its input, and the image
\* goes on to the encode stage: no failure is reported for the file.
C20_WatermarkSoftFail ==
    [][(b_pc = "watermark" /\ ENABLE_WATERMARK /\ ~logo_ok) =>
          /\ cur' = cur
          /\ alog' = Append(alog, [stage |-> "watermark", ok |-> TRUE])
          /\ b_pc' = "encode"
          /\ console' = console]_vars

C20_Witness ==
    /\ ENABLE_WATERMARK
    /\ ~logo_ok
    /\ li = 1
    /\ outputs[1] # {}
    /\ \A f \in outputs[1] :
          \A i \in DOMAIN f[2] : f[2][i][1] # "watermark"
    /\ ~HasMessage("failed")

-----------------------------------------------------------------------------
(* Properties of the loader and of the format optimizer *)

StrategyOrder == <<"enhanced", "standard", "pil">>

\* C9: decoding a RAW file with the enhanced loader tries the strategies in
\* the order enhanced, conservative (standard), generic RGB load: a strategy
\* is tried only when every earlier one failed, the result of the first one
\* that succeeds is returned, and an error reaches the caller only when all
\* three failed, and then it is the error of the last strategy.
C9_FallbackOrder ==
    (\/ lcall = "load_raw_image_enhanced"
     \/ lcall = "load_image_smart_enhanced" /\ is_raw_file(lpath)) =>
        LET n == Len(lresult.tried)
        IN  /\ n \in 1..3
            /\ lresult.tried = SubSeq(StrategyOrder, 1, n)
            /\ \A i \in 1..(n-1) : lfails[StrategyOrder[i]]
            /\ lresult.ok =>
                  /\ ~lfails[StrategyOrder[n]]
                  /\ lresult.strategy = StrategyOrder[n]
            /\ ~lresult.ok =>
                  /\ n = 3
                  /\ \A st \in Strategies : lfails[st]
                  /\ lresult.error = "pil_error"

C9_Witness ==
    /\ lcall = "load_image_smart_enhanced"
    /\ is_raw_file(lpath)
    /\ lfails["enhanced"] /\ lfails["standard"] /\ ~lfails["pil"]
    /\ lresult.ok
    /\ lresult.tried = StrategyOrder

C10_RawSet ==
    { <<".", "n", "e", "f">>, <<".", "c", "r", "2">>, <<".", "a", "r", "w">>,
      <<".", "d", "n", "g">>, <<".", "r", "a", "f">>, <<".", "o", "r", "f">>,
      <<".", "r", "w", "2">>, <<".", "p", "e", "f">>, <<".", "s", "r", "w">> }

C10_JpegSet ==
    { <<".", "j", "p", "g">>, <<".", "j", "p", "e", "g">>,
      <<".", "j", "p", "e">>, <<".", "j", "f", "i", "f">> }

C10_Families ==
    { "sports_action", "portrait_dramatic", "portrait_natural",
      "portrait_subtle", "natural_wildlife", "landscape" }

C10_Expected(ext, requested) ==
    IF lower(ext) \in C10_RawSet /\ requested \in C10_Families
    THEN requested \o "_raw"
    ELSE requested

\* C10: get_optimal_preset(path, requested) returns requested unchanged when
\* the extension of the path is in neither the RAW nor the JPEG set or when
\* requested has no entry in the preset-family map; otherwise the variant
\* registered for the format (the _raw preset for a RAW extension, the plain
\* one for a JPEG extension); the extension is matched whatever its case.
C10_OptimalPreset ==
    fpc = "returned" =>
        \A d \in TestDirs, st \in TestStems, e \in TestExts :
            fpath = d \o st \o e => fresult = C10_Expected(e, frequested)

C10_Witness ==
    /\ fpc = "returned"
    /\ fpath = <<"d", "/", "a", ".", "N", "E", "F">>
    /\ frequested = "sports_action"
    /\ fresult = "sports_action_raw"

\* C11: get_optimal_preset always returns a usable name: for every file path
\* and every requested name that is a key of PHOTOSHOP_PRESETS the returned
\* name is a key of PHOTOSHOP_PRESETS too, so that the apply_photoshop_preset
\* that follows does not raise on the lookup.
C11_OptimalPresetInCatalog ==
    (fpc = "returned" /\ frequested \in PresetNames) =>
        /\ fresult \in PresetNames
        /\ \A st \in BatchStats :
              ~apply_photoshop_preset(Pixels(1), fresult, st).raised

C11_Witness ==
    /\ fpc = "returned"
    /\ frequested \in PresetNames
    /\ fresult # frequested
    /\ fresult \in PresetNames
    /\ detect_file_format(fpath) = "raw"
    /\ frequested = "landscape"

-----------------------------------------------------------------------------
(* Properties of calculate_target_size *)

\* C18: for any total_pixels and any aspect ratio the size computed as
\* width = floor(sqrt(total_pixels * ratio)), height = floor(total_pixels /
\* width) is defined, and width * height is never above total_pixels and
\* within width of it.
C18_PixelCountWithinWidth ==
    ts_pc = "done" =>
        /\ ~ts_result.raised
        /\ ts_result.size[1] * ts_result.size[2] <= ts_pixels
        /\ ts_pixels - ts_result.size[1] * ts_result.size[2] <= ts_result.size[1]

\* |width / height - ratio| <= tolerance percent of ratio, in integers
RatioWithinPercent(size, original_ratio, percent) ==
    LET a == size[1] * original_ratio[2]
        b == size[2] * original_ratio[1]
        diff == IF a >= b THEN a - b ELSE b - a
    IN  diff <= (percent * b) \div 100

\* C19 as stated: for any total_pixels and any aspect ratio the computed
\* size has width / height within 1% of the aspect ratio.
C19_RatioWithinOnePercent ==
    (ts_pc = "done" /\ ~ts_result.raised) =>
        RatioWithinPercent(ts_result.size, <<ts_width, ts_height>>, 1)

\* C19 as amended: the computed size has width / height within 1% of the
\* aspect ratio whenever both computed sides are at least 200 pixels.
C19_RatioWithinOnePercentLargeSides ==
    (ts_pc = "done" /\ ~ts_result.raised
       /\ ts_result.size[1] >= 200 /\ ts_result.size[2] >= 200) =>
        RatioWithinPercent(ts_result.size, <<ts_width, ts_height>>, 1)

C19_Witness ==
    /\ ts_pc = "done"
    /\ ~ts_result.raised
    /\ ts_result.size[1] >= 200
    /\ ts_result.size[2] >= 200
    /\ ts_result.size[1] * ts_height # ts_result.size[2] * ts_width
    /\ RatioWithinPercent(ts_result.size, <<ts_width, ts_height>>, 1)

-----------------------------------------------------------------------------
(* Properties of the pixel computations *)

\* The buffers before and after the call in a state of SpecRaster.
BufferBefore == Render(prev.working)

BufferAfter == Render(enh.working)

LastEntry == enh.history[Len(enh.history)]

\* 1000 times the sum of the luminances 0.299 R + 0.587 G + 0.114 B
LuminanceSum(buf) ==
    SeqSum([i \in DOMAIN buf |->
               buf[i].n * (299 * buf[i].px[1] + 587 * buf[i].px[2]
                           + 114 * buf[i].px[3])])

\* the number of pixels whose HSV value is 180
PatchCount(buf) ==
    SeqSum([i \in DOMAIN buf |-> IF hsv_value(buf[i].px) = 180 THEN buf[i].n ELSE 0])

C14_BrightPatchDarkened ==
    (/\ lastCall = "apply_midtone_protection"
     /\ 10 * PatchCount(BufferBefore) >= 6 * PixelCount(BufferBefore))
    => /\ \A i \in DOMAIN BufferBefore :
              hsv_value(BufferBefore[i].px) = 180
                  => hsv_value(BufferAfter[i].px) < 180
       /\ LastEntry[2] = "Applied"

\* C14 (amended): the same, for the images whose mean HSV value is above
\* 120.
C14_BrightPatchDarkenedWhenBright ==
    (/\ lastCall = "apply_midtone_protection"
     /\ 10 * PatchCount(BufferBefore) >= 6 * PixelCount(BufferBefore)
     /\ ValueSum(BufferBefore) > 120 * PixelCount(BufferBefore))
    => /\ \A i \in DOMAIN BufferBefore :
              hsv_value(BufferBefore[i].px) = 180
                  => hsv_value(BufferAfter[i].px) < 180
       /\ LastEntry[2] = "Applied"

\* An image of three fifths at value 180 and two fifths at value 255 was
\* protected: the patch came out at 174.
C14_Witness ==
    /\ lastCall = "apply_midtone_protection"
    /\ Len(BufferBefore) = 2
    /\ BufferBefore[1] = [px |-> <<180, 180, 180>>, n |-> 3]
    /\ BufferBefore[2] = [px |-> <<255, 255, 255>>, n |-> 2]
    /\ BufferAfter[1].px = <<174, 174, 174>>
    /\ BufferAfter[2].px = <<255, 255, 255>>
    /\ LastEntry[2] = "Applied"

\* the argument of the brightness_adjustment call just made
BrightnessValue == IF enh.history = prev.history THEN 0 ELSE LastEntry[2]

\* C15: brightness_adjustment(v) scales the buffer by max(0, 1 + v/100):
\* every channel comes out in 0..255 at the scaled value cut to 8 bits (or
\* one level under it, the product being rounded to single precision
\* first), black for v <= -100; brightness_adjustment(0) leaves the working
\* buffer as it was.
C15_BrightnessScale ==
    lastCall = "brightness_adjustment" =>
        LET v == BrightnessValue
            factor100 == IF 100 + v > 0 THEN 100 + v ELSE 0
        IN  /\ v = 0 => enh.working = prev.working /\ BufferAfter = BufferBefore
            /\ \A i \in DOMAIN BufferBefore : \A c \in 1..3 :
                   LET scaled == (BufferBefore[i].px[c] * factor100) \div 100
                       exact == IF scaled > 255 THEN 255 ELSE scaled
                       out == BufferAfter[i].px[c]
                   IN  /\ out \in 0..255
                       /\ exact - 1 <= out
                       /\ out <= exact
                       /\ v <= -100 => out = 0
                       /\ BufferAfter[i].n = BufferBefore[i].n

\* brightness_adjustment(-150) turned a buffer that was not black into a
\* black one.
C15_Witness ==
    /\ lastCall = "brightness_adjustment"
    /\ enh.history # prev.history
    /\ LastEntry[2] = -150
    /\ \E i \in DOMAIN BufferBefore : BufferBefore[i].px # <<0, 0, 0>>
    /\ \A i \in DOMAIN BufferAfter : BufferAfter[i].px = <<0, 0, 0>>

\* C16: for any 8-bit buffer and any exposure values v1 < v2,
\* exposure_adjustment(v2) gives a strictly greater mean luminance than
\* exposure_adjustment(v1) applied to the same buffer.
C16_ExposureStrictlyMonotone ==
    lastCall = "exposure_adjustment" =>
        \A v1 \in RasterExposures :
            v1 < LastEntry[2] =>
                LuminanceSum(Render(exposure_adjustment(prev, v1).working))
                    < LuminanceSum(BufferAfter)

\* C17 (as stated): the full stage sequence with every parameter at its
\* neutral value returns a buffer identical to the input buffer.
C17_NeutralIdentical ==
    lastCall \in {"preset_stages", "custom_stages"} =>
        BufferAfter = Render(image)

\* C17 (amended): it returns a buffer in which every channel of every pixel
\* has the value of the input or the value one level under it.
C17_NeutralWithinOneLevel ==
    lastCall \in {"preset_stages", "custom_stages"} =>
        /\ Len(BufferAfter) = Len(Render(image))
        /\ \A i \in DOMAIN BufferAfter :
               /\ BufferAfter[i].n = Render(image)[i].n
               /\ \A c \in 1..3 :
                      \/ BufferAfter[i].px[c] = Render(image)[i].px[c]
                      \/ BufferAfter[i].px[c] = Render(image)[i].px[c] - 1

\* The neutral preset ran on a buffer with a pixel of gray level 7, which
\* came out at level 6.
C17_Witness ==
    /\ lastCall = "preset_stages"
    /\ \E i \in DOMAIN BufferAfter :
           /\ Render(image)[i].px = <<7, 7, 7>>
           /\ BufferAfter[i].px = <<6, 6, 6>>

-----------------------------------------------------------------------------
(* Properties of the preset catalog *)

Abs(n) == IF n < 0 THEN -n ELSE n

\* the standard presets that have a RAW-suffixed variant in the catalog
StandardWithRawVariant ==
    { name \in PresetNames : (name \o "_raw") \in PresetNames }

NumericKeys(preset) ==
    { k \in DOMAIN preset : k # "midtone_protection" }

\* C26: for every preset family that has both a standard preset and a
\* RAW-suffixed variant in the catalog, each adjustment parameter of the RAW
\* variant has an absolute value greater than or equal to that of the same
\* parameter in the standard preset.
C26_RawVariantAtLeastStandard ==
    \A name \in StandardWithRawVariant :
        LET standard == PHOTOSHOP_PRESETS[name]
            variant == PHOTOSHOP_PRESETS[name \o "_raw"]
        IN  (pname = name \/ pname = name \o "_raw") =>
                \A k \in NumericKeys(standard) \cup NumericKeys(variant) :
                    Abs(Get(variant, k, 0)) >= Abs(Get(standard, k, 0))

-----------------------------------------------------------------------------
(* Properties that relate the decoder and the format optimizer *)

\* C27: the decoder and the format optimizer agree on what is RAW: for every
\* file path, is_raw_file(path) is true exactly when detect_file_format(path)
\* is 'raw'.
C27_DecoderAndClassifierAgree ==
    fpc = "returned" =>
        (is_raw_file(fpath) <=> detect_file_format(fpath) = "raw")

-----------------------------------------------------------------------------
(* Properties of color_temperature *)

\* the 8-bit value of level times num / den, at most 255
ScaledLevel(level, num, den) ==
    IF (level * num) \div den > 255 THEN 255 ELSE (level * num) \div den

\* out is the scaled level, or the level under it that the single-precision
\* product can give
NearScaled(out, level, num, den) ==
    /\ ScaledLevel(level, num, den) - 1 <= out
    /\ out <= ScaledLevel(level, num, den)

\* The effect of a positive tint at temperature 0: red and blue up by
\* tint/2000 (5% at 100), green down by tint/1000 (10% at 100).
PositiveTintEffect(tint) ==
    \A i \in DOMAIN BufferBefore :
        /\ NearScaled(BufferAfter[i].px[1], BufferBefore[i].px[1], 2000 + tint, 2000)
        /\ NearScaled(BufferAfter[i].px[3], BufferBefore[i].px[3], 2000 + tint, 2000)
        /\ NearScaled(BufferAfter[i].px[2], BufferBefore[i].px[2], 1000 - tint, 1000)
        /\ BufferAfter[i].px[1] >= BufferBefore[i].px[1]
        /\ BufferAfter[i].px[3] >= BufferBefore[i].px[3]
        /\ BufferAfter[i].px[2] <= BufferBefore[i].px[2]

TintCallAtTemperatureZero ==
    /\ lastCall = "color_temperature"
    /\ enh.history # prev.history
    /\ LastEntry[2] = 0

\* C24 (as stated): color_temperature with tint < 0 and temperature 0
\* changes only the green channel and scales it down, by up to about 10% at
\* tint = -100, leaving red and blue unchanged; with tint > 0 it scales red
\* and blue up (about 5% at tint = 100) and green down (about 10% at 100).
C24_TintScalesGreenDown ==
    TintCallAtTemperatureZero =>
        IF LastEntry[3] < 0
        THEN \A i \in DOMAIN BufferBefore :
                 /\ BufferAfter[i].px[1] = BufferBefore[i].px[1]
                 /\ BufferAfter[i].px[3] = BufferBefore[i].px[3]
                 /\ BufferAfter[i].px[2] <= BufferBefore[i].px[2]
                 /\ NearScaled(BufferAfter[i].px[2], BufferBefore[i].px[2],
                               1000 + LastEntry[3], 1000)
        ELSE PositiveTintEffect(LastEntry[3])

\* C24 (amended): with tint < 0 and temperature 0 only the green channel
\* changes and it is scaled up, by 10% at tint = -100 (up to the ceiling
\* 255); with tint > 0 red and blue go up and green goes down as stated.
C24_NegativeTintScalesGreenUp ==
    TintCallAtTemperatureZero =>
        IF LastEntry[3] < 0
        THEN \A i \in DOMAIN BufferBefore :
                 /\ BufferAfter[i].px[1] = BufferBefore[i].px[1]
                 /\ BufferAfter[i].px[3] = BufferBefore[i].px[3]
                 /\ BufferAfter[i].px[2] >= BufferBefore[i].px[2]
                 /\ NearScaled(BufferAfter[i].px[2], BufferBefore[i].px[2],
                               1000 - LastEntry[3], 1000)
        ELSE PositiveTintEffect(LastEntry[3])

\* color_temperature(0, -100) took a pixel of levels (150, 150, 150) to
\* (150, 165, 150).
C24_Witness ==
    /\ TintCallAtTemperatureZero
    /\ LastEntry[3] = -100
    /\ \E i \in DOMAIN BufferBefore :
           /\ BufferBefore[i].px = <<150, 150, 150>>
           /\ BufferAfter[i].px = <<150, 165, 150>>

-----------------------------------------------------------------------------
(* Properties of the output folders of a batch run *)

NoStageFailed ==
    /\ b_pc = "done"
    /\ b_outcome = "returned"
    /\ image_files # <<>>
    /\ ~HasMessage("failed")

\* C21: after a batch run in which no stage failed, each output folder holds
\* exactly one JPEG per input file, named {stem}_{3-letter code}.jpg: every
\* input has its file, and the number of files in the folder equals the
\* number of input files, also for lists whose files differ in extension.
C21_OneOutputPerInput ==
    NoStageFailed =>
        \A l \in DOMAIN outputs :
            /\ \A i \in DOMAIN image_files :
                  \E f \in outputs[l] : f[1] = OutputName(image_files[i], preset_name)
            /\ \A f \in outputs[l] : f[1][2] = get_mode_prefix(preset_name)
            /\ Cardinality(outputs[l]) = Len(image_files)


\* The orderings of one list of input files.
Orderings(files) ==
    { p \in [DOMAIN files -> Range(files)] : Range(p) = Range(files) }

\* The input a run over files leaves under an output name: the save of a
\* later input replaces the file of an earlier one.
LastSource(files, name, out) ==
    LET same == { i \in DOMAIN files : OutputName(files[i], name) = out }
    IN  files[CHOOSE i \in same : \A j \in same : j <= i]

DecodedFrom(content) == content[1][2]

\* C22: the outputs of a run in which no stage failed do not depend on the
\* order in which the inputs were processed: under every ordering of the same
\* inputs the folder holds the same names, and the file left under each name
\* is decoded from the same input as in this run.
C22_OrderIndependent ==
    NoStageFailed =>
        \A l \in DOMAIN outputs, p \in Orderings(image_files) :
            /\ { f[1] : f \in outputs[l] } =
                   { OutputName(p[i], preset_name) : i \in DOMAIN p }
            /\ \A f \in outputs[l] :
                   /\ DecodedFrom(f[2]) = LastSource(image_files, preset_name, f[1])
                   /\ DecodedFrom(f[2]) = LastSource(p, preset_name, f[1])


-----------------------------------------------------------------------------
(* Properties of the temporary extraction directory *)

C28_Disk ==
    /\ input_exists
    /\ temp_exists => is_temp
    /\ b_pc = "done" => ~temp_exists
    /\ (input_kind = "bad_zip" /\ b_pc # "start")
          => /\ b_pc = "done"
             /\ ~is_temp
             /\ attempts = <<>>
             /\ \A l \in DOMAIN outputs : outputs[l] = {}

C28_Removal ==
    (temp_exists /\ ~temp_exists') => (is_temp /\ b_pc' = "done")

-----------------------------------------------------------------------------
(* Properties of the mode driver *)

TermsOf(img) == { img[i][1] : i \in 2..Len(img) }

\* What the basic loader followed by the resize to a pixel budget gives.
ResizedOnly(full_path, total_pixels) ==
    { Append(load_image_basic(full_path, fails).img, <<"resize", total_pixels>>) :
        fails \in { o \in FailureOracles : load_image_basic(full_path, o).ok } }

\* C23: in resize_only mode no image is watermarked or enhanced, whatever
\* the value of ENABLE_WATERMARK: add_watermark and
\* analyze_and_adjust_lighting are never called, the basic loader is used,
\* and every output is the resized image, named with the code res.
C23_ResizeOnly ==
    mode = "resize_only" =>
        /\ TermsOf(cur) \cap {"watermark", "analyze_and_adjust_lighting"} = {}
        /\ \A i \in DOMAIN alog :
              /\ alog[i].stage \notin {"adjust", "watermark"}
              /\ alog[i].stage = "decode" /\ alog[i].ok
                    => alog[i].loader = "load_image_basic"
        /\ ~HasMessage("added_watermark")
        /\ \A l \in DOMAIN outputs : \A f \in outputs[l] :
              /\ f[1][2] = "res"
              /\ \E i \in DOMAIN image_files :
                    /\ f[1] = OutputName(image_files[i], mode)
                    /\ f[2] \in ResizedOnly(image_files[i], RESOLUTIONS[l].total_pixels)

C23_Witness ==
    /\ mode = "resize_only"
    /\ ENABLE_WATERMARK
    /\ logo_ok
    /\ b_pc = "done"
    /\ b_outcome = "returned"
    /\ Cardinality(outputs[2]) = 2
    /\ HasMessage("resize_only")


-----------------------------------------------------------------------------
(* Properties of the custom-preset path *)

\* Dicts that differ at most in the keys tint and midtone_protection.
SameButTintAndMidtone(c, d) ==
    \A k \in (DOMAIN c \cup DOMAIN d) \ {"tint", "midtone_protection"} :
        k \in DOMAIN c /\ k \in DOMAIN d /\ c[k] = d[k]

\* C29: processing with a custom preset never invokes
\* apply_midtone_protection and calls color_temperature with tint 0 only; two
\* custom dicts that differ only in 'tint' or 'midtone_protection' give the
\* same output.
C29_CustomIgnoresTintAndMidtone ==
    pkind = "custom" =>
        /\ \A i \in DOMAIN enh.trace : enh.trace[i].op # "apply_midtone_protection"
        /\ \A i \in DOMAIN enh.working :
              /\ enh.working[i][1] # "midtone"
              /\ enh.working[i][1] = "temperature" => enh.working[i][3] = 0
        /\ ppc = "done" =>
              \A other \in Customs :
                  SameButTintAndMidtone(pcustom, other)
                      => presult[1] = get_result(custom_stages(image, other))

C29_Witness ==
    /\ pkind = "custom"
    /\ ppc = "done"
    /\ "tint" \in DOMAIN pcustom
    /\ pcustom.tint = 30
    /\ pcustom.temperature = 10
    /\ \E i \in DOMAIN enh.trace : enh.trace[i].op = "color_temperature"
    /\ presult[1] = get_result(custom_stages(image, WithKey(pcustom, "tint", -20)))


-----------------------------------------------------------------------------
(* Properties of the watermark alpha *)

\* a * opacity * 1.2 in thousandths of a level, capped at 255 levels
ClaimedAlpha1000(a, opacity100) ==
    IF a * opacity100 * 12 < 255000 THEN a * opacity100 * 12 ELSE 255000

\* C25: for every opacity in [0.0, 1.0] and every logo pixel of original
\* alpha a, the alpha the pixel is pasted with is min(255, a * opacity * 1.2)
\* (to the integer level, within one level for the rounding), and it never
\* decreases when the opacity increases.
C25_AlphaScaledAndMonotone ==
    wm_pc = "done" =>
        /\ 1000 * wm_applied <= ClaimedAlpha1000(wm_alpha, wm_opacity)
        /\ ClaimedAlpha1000(wm_alpha, wm_opacity) < 1000 * (wm_applied + 2)
        /\ \A smaller \in WatermarkOpacities :
              smaller <= wm_opacity
                  => logo_pixel_alpha(wm_alpha, smaller) <= wm_applied


-----------------------------------------------------------------------------
(* Properties of the copy utility *)

SuccessfulResults == { f \in listed : wresult[f] \in {"copied", "skipped"} }

C30_DeleteGuard ==
    deleted =>
        /\ strip(choice) = <<"2">>
        /\ upper(strip(confirm)) = <<"Y", "E", "S">>
        /\ delete_after_copy
        /\ copy_successful = "True"

C30_ReturnTrue ==
    copy_successful = "True" =>
        /\ listed # {}
        /\ \A f \in listed :
              /\ task[f] = "done"
              /\ dest[f] = "same_size"
              /\ \/ wresult[f] = "copied"
                 \/ wresult[f] = "skipped" /\ dest_before[f] = "same_size"

C30_Counters ==
    /\ copied_count + skipped_count = Cardinality(SuccessfulResults)
    /\ c_pc \in {"decide", "done"} /\ copy_successful # "none" /\ listed # {}
          => successful_copies = copied_count + skipped_count

\* C30: in the copy utility delete_all_files runs on the source directory
\* only when the user chose deletion, confirmed it with YES (the answer the
\* code compares is the one typed, stripped and upper-cased) and copy_files
\* returned True; copy_files returns True only when, all worker threads
\* having finished, every listed media file ended as copied with a verified
\* size or skipped because a file of the same size was at the destination;
\* and under every interleaving of the worker threads copied + skipped
\* equals the number of successful results.
C30_SafeDeleteAndCounters ==
    /\ C30_DeleteGuard
    /\ C30_ReturnTrue
    /\ C30_Counters

C30_Witness ==
    /\ deleted
    /\ confirm = <<"Y", "E", "S">>
    /\ Cardinality(listed) = 2
    /\ copied_count = 1
    /\ skipped_count = 1
    /\ successful_copies = 2

====
